---- MODULE Spec2Model ----
(***************************************************************************)
(* State-machine model of the web server of the workspace builder:         *)
(*   - the process manager (port leases, child dev servers, log events),   *)
(*     its HTTP routes and the preview proxy          (specification       *)
(*     SpecProc);                                                          *)
(*   - the storage layer's path resolution behind the file routes and the  *)
(*     AI file tools                                  (SpecStore);         *)
(*   - the SSE generation handler and its cancel route (SpecStream,       *)
(*     SpecGen);                                                           *)
(*   - socket rooms and log delivery (SpecLog), failing starts (SpecFail), *)
(*     shutdown (SpecShutdown), ownership checks (SpecAccess), and the rows *)
(*     behind the apps and chats routes (SpecCreate, SpecChat, SpecPatch), *)
(*     file paths that leave the workspace (SpecCross);                    *)
(*   - the browser side: the terminal hook's socket (SpecHook) and the API *)
(*     client's reader of the SSE response (SpecRead).                     *)
(* Every handler is cut at its awaits: one action is one run-to-completion *)
(* segment of the single-threaded event loop.                              *)
(***************************************************************************)
EXTENDS Integers, Sequences, FiniteSets, TLC

(***************************************************************************)
(* Bounds of the model and program constants.                              *)
(***************************************************************************)
\* number of POST /process/:appId/start requests of one behaviour
MaxCalls == 3
\* size of the port pool (ProcessManager.maxPorts, scaled down from 100)
maxPorts == 2
\* terminal:log events one socket connection keeps
MaxLog == 5
\* segments of a client-supplied file path
MaxPathLen == 4
\* file requests (routes and tool calls) of one behaviour
MaxOps == 1
\* POST /stream/:chatId requests of one behaviour
MaxGens == 2
\* text chunks one model stream yields
MaxChunks == 2
\* milliseconds the clock advances
MaxTime == 1
\* POST /apps requests of one behaviour
MaxCreates == 2
\* events (join-app, leave-app, disconnect) of one socket connection
MaxEvents == 3
\* frames of one SSE response read by the API client
MaxFrames == 3
\* tool steps of one generation (maxSteps of streamText, scaled down from 10)
maxSteps == 2
\* ProcessManager.startPort
startPort == 3002

Users == {1, 2}
AppIds == {1, 2, 3}
NoUser == 0
NoPort == 0
NoCall == 0
CallIds == 1 .. MaxCalls
Sockets == {1}
\* the workspaces that DELETE /apps/:id requests name
DelApps == {2}
\* the workspaces whose rooms socket connections join and leave
LogApps == {1, 2}
\* the workspaces whose start fails or needs an install: 2 has no
\* node_modules, 3 has no package.json
FailApps == {2, 3}
Ports == startPort .. (startPort + maxPorts - 1)

VARIABLES
    owner,        \* apps table: app id -> owning user id, NoUser when no row
    processes,    \* ProcessManager.processes: app id -> lease or NoLease
    calls,        \* the owner's start requests: call id -> [app, pc, port]
    child,        \* child process spawned by call id: none/running/killed/exited
    pkgJson,      \* workspaces whose root holds package.json
    nodeModules,  \* workspaces whose root holds node_modules
    rooms,        \* socket connection -> the app rooms it has joined
    sent,         \* socket connection -> the events it has sent, in order
    received,     \* socket connection -> the terminal:log events delivered to it
    resp,         \* the last response of a request answered in one segment
    files,        \* the regular files of the file system (resolved paths)
    dirs,         \* the directories of the file system (resolved paths)
    lastIo,       \* the last request that reached the storage layer
    ioCount,      \* number of file requests served
    messages,     \* messages table, in insertion order
    activeStreams,\* activeStreams: stream id -> generation owning the controller
    aborted,      \* generation -> its AbortController's signal.aborted
    gens,         \* generation requests: [chat, user, pc, streamId, full, frames, ...]
    now,          \* Date.now()
    server,       \* the Node process: "up", "closing" (signal handler awaits), "exited"
    chats,        \* chats table: the ids of the rows of chatApp that exist
    creates,      \* POST /apps requests: [pc, user, prompt, app, chat], app and
                  \* chat telling whether the row the request inserts exists
    reader        \* the API client's SSE reader: [pc, frames, rest, pending, buffer,
                  \* msgs, events, split]

procVars == <<owner, processes, calls, child, pkgJson, nodeModules, rooms, sent, received, resp>>
storeVars == <<files, dirs, lastIo, ioCount>>

streamVars == <<messages, activeStreams, aborted, gens, now>>

sysVars == <<server>>

clientVars == <<reader>>

dbVars == <<chats, creates>>

vars == <<procVars, storeVars, streamVars, sysVars, clientVars, dbVars>>

(***************************************************************************)
(* Process manager                                                         *)
(***************************************************************************)
NoLease == [port |-> NoPort, child |-> NoCall]

\* during: the calls for the same workspace that were suspended inside
\* startApp, before recording their lease, when this call was issued
IdleCall == [app |-> 0, pc |-> "idle", port |-> NoPort, during |-> {}]

NoResp == [kind |-> "none"]

\* Map.has(appId)
HasLease(a) == processes[a] # NoLease

\* ProcessManager.getAppPort: the port of the lease, undefined (NoPort) without
getAppPort(a) == processes[a].port

\* the usedPorts set of getAvailablePort
UsedPorts == {processes[a].port : a \in {x \in AppIds : HasLease(x)}}

\* ProcessManager.getAvailablePort: the lowest port of the pool that no lease
\* holds; NoPort stands for the thrown "No available ports" error
getAvailablePort ==
    LET free == Ports \ UsedPorts
    IN  IF free = {} THEN NoPort
        ELSE CHOOSE p \in free : \A q \in free : p <= q

\* Variant of broadcastLog whose event overtakes the events delivered before.
broadcastLog_Prepends(rcv, a, msg, isError, src) ==
    [s \in Sockets |->
        IF a \in rooms[s]
          THEN <<[appId |-> a, message |-> msg, isError |-> isError, src |-> src]>> \o rcv[s]
          ELSE rcv[s]]

\* ProcessManager.broadcastLog: io.to("app-<appId>").emit("terminal:log", ...)
\* delivers the event to the connections that are in the room
broadcastLog(rcv, a, msg, isError, src) ==
    [s \in Sockets |->
        IF a \in rooms[s]
          THEN Append(rcv[s], [appId |-> a, message |-> msg, isError |-> isError, src |-> src])
          ELSE rcv[s]]

\* the apps row lookup of the routes: and(eq(apps.id, appId), eq(apps.userId, userId))
OwnsApp(u, a) == owner[a] = u

\* no handler is inside execSync: the single-threaded event loop can run the
\* next handler (request, socket event, child event, resumed await)
EventLoopFree == \A d \in CallIds : calls[d].pc # "installing"

\* call slots are taken in order
NextFree(c) == calls[c].pc = "idle" /\ \A d \in CallIds : d < c => calls[d].pc # "idle"

\* the calls suspended at an await of startApp(a)
Suspended(a) == {d \in CallIds : calls[d].app = a /\ calls[d].pc \in {"accessPkg", "accessModules"}}

(* POST /:appId/start up to the first await inside startApp: the ownership *)
(* lookup, the already-running check and the port selection.               *)
StartRequest(c, u, a) ==
    /\ EventLoopFree
    /\ NextFree(c)
    /\ IF ~OwnsApp(u, a)
         THEN /\ resp' = [kind |-> "start", app |-> a, status |-> 404]
              /\ UNCHANGED calls
         ELSE /\ calls' = [calls EXCEPT ![c] =
                    IF HasLease(a)
                      THEN [app |-> a, pc |-> "ok", port |-> processes[a].port, during |-> Suspended(a)]
                      ELSE IF getAvailablePort = NoPort
                        THEN [app |-> a, pc |-> "exhausted", port |-> NoPort, during |-> Suspended(a)]
                        ELSE [app |-> a, pc |-> "accessPkg", port |-> getAvailablePort,
                              during |-> Suspended(a)]]
              /\ UNCHANGED resp
    /\ UNCHANGED <<owner, processes, child, pkgJson, nodeModules, rooms, sent, received, storeVars, streamVars, sysVars, clientVars, dbVars>>

\* Variant of StartCheckPackage that publishes the "preparing" line before
\* it looks at the result of fs.access(package.json).
StartCheckPackage_LogsFirst(c) ==
    /\ EventLoopFree
    /\ calls[c].pc = "accessPkg"
    /\ received' = broadcastLog(received, calls[c].app, "preparing", FALSE, c)
    /\ calls' = [calls EXCEPT ![c].pc = IF calls[c].app \in pkgJson THEN "accessModules"
                                                                   ELSE "notInitialized"]
    /\ UNCHANGED <<owner, processes, child, pkgJson, nodeModules, rooms, sent, resp, storeVars, streamVars, sysVars, clientVars, dbVars>>

(* startApp resumed after fs.access(package.json)                          *)
StartCheckPackage(c) ==
    /\ EventLoopFree
    /\ calls[c].pc = "accessPkg"
    /\ IF calls[c].app \in pkgJson
         THEN /\ calls' = [calls EXCEPT ![c].pc = "accessModules"]
              /\ received' = broadcastLog(received, calls[c].app, "preparing", FALSE, c)
         ELSE /\ calls' = [calls EXCEPT ![c].pc = "notInitialized"]
              /\ UNCHANGED received
    /\ UNCHANGED <<owner, processes, child, pkgJson, nodeModules, rooms, sent, resp, storeVars, streamVars, sysVars, clientVars, dbVars>>

\* spawn, processes.set, the "Starting" log line and the return of the port
SpawnAndRecord(c, rcv) ==
    /\ child' = [child EXCEPT ![c] = "running"]
    /\ processes' = [processes EXCEPT ![calls[c].app] = [port |-> calls[c].port, child |-> c]]
    /\ received' = broadcastLog(rcv, calls[c].app, "starting", FALSE, c)
    /\ calls' = [calls EXCEPT ![c].pc = "ok"]

\* Variant of InstallDone whose failure line is not flagged as an error.
InstallDone_UnflaggedFailure(c, ok) ==
    /\ calls[c].pc = "installing"
    /\ LET a == calls[c].app IN
       IF ok
         THEN /\ nodeModules' = nodeModules \cup {a}
              /\ SpawnAndRecord(c, broadcastLog(received, a, "installed", FALSE, c))
         ELSE /\ received' = broadcastLog(received, a, "installFailed", FALSE, c)
              /\ calls' = [calls EXCEPT ![c].pc = "installFailed"]
              /\ UNCHANGED <<processes, child, nodeModules>>
    /\ UNCHANGED <<owner, pkgJson, rooms, sent, resp, storeVars, streamVars, sysVars, clientVars, dbVars>>

\* execSync("npm install") returns or throws: the event loop is free again
\* and the same segment goes on to spawn and record the lease, or fails.
InstallDone(c, ok) ==
    /\ calls[c].pc = "installing"
    /\ LET a == calls[c].app IN
       IF ok
         THEN /\ nodeModules' = nodeModules \cup {a}
              /\ SpawnAndRecord(c, broadcastLog(received, a, "installed", FALSE, c))
         ELSE /\ received' = broadcastLog(received, a, "installFailed", TRUE, c)
              /\ calls' = [calls EXCEPT ![c].pc = "installFailed"]
              /\ UNCHANGED <<processes, child, nodeModules>>
    /\ UNCHANGED <<owner, pkgJson, rooms, sent, resp, storeVars, streamVars, sysVars, clientVars, dbVars>>

(* startApp resumed after fs.access(node_modules): spawn and record the    *)
(* lease, or, when node_modules is missing, publish the "installing" line  *)
(* and enter execSync, which blocks the event loop until it returns.       *)
StartSpawn(c) ==
    /\ EventLoopFree
    /\ calls[c].pc = "accessModules"
    /\ LET a == calls[c].app IN
       IF a \in nodeModules
         THEN /\ SpawnAndRecord(c, received)
         ELSE /\ received' = broadcastLog(received, a, "installing", FALSE, c)
              /\ calls' = [calls EXCEPT ![c].pc = "installing"]
              /\ UNCHANGED <<processes, child>>
    /\ UNCHANGED <<owner, pkgJson, nodeModules, rooms, sent, resp, storeVars, streamVars, sysVars, clientVars, dbVars>>

(* child.stdout / child.stderr "data" handlers                             *)
ChildData(c, isError) ==
    /\ EventLoopFree
    /\ child[c] \in {"running", "killed"}
    /\ \A s \in Sockets : calls[c].app \in rooms[s] => Len(received[s]) < MaxLog
    /\ received' = broadcastLog(received, calls[c].app,
                                IF isError THEN "stderr" ELSE "stdout", isError, c)
    /\ UNCHANGED <<owner, processes, calls, child, pkgJson, nodeModules, rooms, sent, resp, storeVars, streamVars, sysVars, clientVars, dbVars>>

\* the body of the child's "exit" handler: log the code, processes.delete(appId)
ExitHandler(c) ==
    /\ received' = broadcastLog(received, calls[c].app, "exit", FALSE, c)
    /\ processes' = [processes EXCEPT ![calls[c].app] = NoLease]

(* child.on("exit"): the child ends by itself or after a kill              *)
ChildExit(c) ==
    /\ EventLoopFree
    /\ child[c] \in {"running", "killed"}
    /\ child' = [child EXCEPT ![c] = "exited"]
    /\ ExitHandler(c)
    /\ UNCHANGED <<owner, calls, pkgJson, nodeModules, rooms, sent, resp, storeVars, streamVars, sysVars, clientVars, dbVars>>

\* ProcessManager.stopApp on a workspace that has a lease: kill, delete, log
stopApp(a) ==
    /\ child' = [child EXCEPT ![processes[a].child] =
                    IF @ = "running" THEN "killed" ELSE @]
    /\ processes' = [processes EXCEPT ![a] = NoLease]
    /\ received' = broadcastLog(received, a, "stopped", FALSE, processes[a].child)

\* Variant of StopRequest that publishes the "stopped" line also when the
\* workspace has no lease.
StopRequest_AlwaysLogs(u, a) ==
    /\ EventLoopFree
    /\ IF ~OwnsApp(u, a)
         THEN /\ resp' = [kind |-> "stop", app |-> a, status |-> 404, stopped |-> FALSE,
                          port |-> NoPort]
              /\ UNCHANGED <<processes, child, received>>
         ELSE IF HasLease(a)
           THEN /\ stopApp(a)
                /\ resp' = [kind |-> "stop", app |-> a, status |-> 200, stopped |-> TRUE,
                            port |-> processes[a].port]
           ELSE /\ resp' = [kind |-> "stop", app |-> a, status |-> 200, stopped |-> FALSE,
                            port |-> NoPort]
                /\ received' = broadcastLog(received, a, "stopped", FALSE, NoCall)
                /\ UNCHANGED <<processes, child>>
    /\ UNCHANGED <<owner, calls, pkgJson, nodeModules, rooms, sent, storeVars, streamVars, sysVars, clientVars, dbVars>>

(* POST /:appId/stop                                                       *)
StopRequest(u, a) ==
    /\ EventLoopFree
    /\ IF ~OwnsApp(u, a)
         THEN /\ resp' = [kind |-> "stop", app |-> a, status |-> 404, stopped |-> FALSE,
                          port |-> NoPort]
              /\ UNCHANGED <<processes, child, received>>
         ELSE IF HasLease(a)
           THEN /\ stopApp(a)
                /\ resp' = [kind |-> "stop", app |-> a, status |-> 200, stopped |-> TRUE,
                            port |-> processes[a].port]
           ELSE /\ resp' = [kind |-> "stop", app |-> a, status |-> 200, stopped |-> FALSE,
                            port |-> NoPort]
                /\ UNCHANGED <<processes, child, received>>
    /\ UNCHANGED <<owner, calls, pkgJson, nodeModules, rooms, sent, storeVars, streamVars, sysVars, clientVars, dbVars>>

(* GET /:appId/status                                                      *)
StatusRequest(a) ==
    /\ EventLoopFree
    /\ resp' = [kind |-> "status", app |-> a, status |-> 200,
                running |-> getAppPort(a) # NoPort, port |-> getAppPort(a)]
    /\ UNCHANGED <<owner, processes, calls, child, pkgJson, nodeModules, rooms, sent, received, storeVars, streamVars, sysVars, clientVars, dbVars>>

\* the preview handler without its apps-table lookup
PreviewResponse_NoLookup(a, dbOk) ==
    IF getAppPort(a) # NoPort
      THEN [kind |-> "preview", app |-> a, hadLease |-> TRUE, found |-> owner[a] # NoUser,
            status |-> 200, target |-> getAppPort(a)]
      ELSE [kind |-> "preview", app |-> a, hadLease |-> FALSE, found |-> FALSE,
            status |-> 503, target |-> NoPort]

\* the response of the preview proxy for workspace id a: proxy to the leased
\* port, else look the workspace up and answer 404, 503 or (lookup threw) 500
PreviewResponse(a, dbOk) ==
    IF getAppPort(a) # NoPort
      THEN [kind |-> "preview", app |-> a, hadLease |-> TRUE, found |-> owner[a] # NoUser,
            status |-> 200, target |-> getAppPort(a)]
      ELSE IF ~dbOk
        THEN [kind |-> "preview", app |-> a, hadLease |-> FALSE, found |-> FALSE,
              status |-> 500, target |-> NoPort]
        ELSE IF owner[a] = NoUser
          THEN [kind |-> "preview", app |-> a, hadLease |-> FALSE, found |-> FALSE,
                status |-> 404, target |-> NoPort]
          ELSE [kind |-> "preview", app |-> a, hadLease |-> FALSE, found |-> TRUE,
                status |-> 503, target |-> NoPort]

(* router.use("/:appId") of the preview proxy                              *)
PreviewRequest(a, dbOk) ==
    /\ EventLoopFree
    /\ resp' = PreviewResponse(a, dbOk)
    /\ UNCHANGED <<owner, processes, calls, child, pkgJson, nodeModules, rooms, sent, received, storeVars, streamVars, sysVars, clientVars, dbVars>>

\* Variant of GetApp that returns the row whoever asks.
GetApp_NoOwnerCheck(u, a) ==
    /\ EventLoopFree
    /\ resp' = [kind |-> "app", app |-> a, status |-> IF owner[a] # NoUser THEN 200 ELSE 404]
    /\ UNCHANGED <<owner, processes, calls, child, pkgJson, nodeModules, rooms, sent, received, storeVars, streamVars, sysVars, clientVars, dbVars>>

(* GET /:id of the apps routes                                             *)
GetApp(u, a) ==
    /\ EventLoopFree
    /\ resp' = [kind |-> "app", app |-> a, status |-> IF OwnsApp(u, a) THEN 200 ELSE 404]
    /\ UNCHANGED <<owner, processes, calls, child, pkgJson, nodeModules, rooms, sent, received, storeVars, streamVars, sysVars, clientVars, dbVars>>

\* the events a socket connection sends
JoinEvent(a) == [op |-> "join-app", app |-> a]

LeaveEvent(a) == [op |-> "leave-app", app |-> a]

DisconnectEvent == [op |-> "disconnect", app |-> 0]

\* the connection sends one more event
Sends(s, e) == Len(sent[s]) < MaxEvents /\ sent' = [sent EXCEPT ![s] = Append(@, e)]

\* part_001:27-30: the event the terminal hook emits from its connect
\* handler; its argument is the object {appId}
TerminalJoinEvent(a) == [op |-> "terminal:join", app |-> a]

\* The rooms after the server has received event e of connection s: the
\* connection handler registers listeners for join-app, leave-app and
\* disconnect, an event of any other name has no listener.
OnEvent(rm, s, e) ==
    IF e.op = "join-app" THEN [rm EXCEPT ![s] = @ \cup {e.app}]
    ELSE IF e.op = "leave-app" THEN [rm EXCEPT ![s] = @ \ {e.app}]
    ELSE IF e.op = "disconnect" THEN [rm EXCEPT ![s] = {}]
    ELSE rm

\* useTerminal(appId): the hook opens connection s, which connects and emits
\* the hook's join event; the server dispatches it to its listeners.
useTerminal(s, a) ==
    /\ EventLoopFree
    /\ sent[s] = <<>>
    /\ Sends(s, TerminalJoinEvent(a))
    /\ rooms' = OnEvent(rooms, s, TerminalJoinEvent(a))
    /\ UNCHANGED <<owner, processes, calls, child, pkgJson, nodeModules, received, resp, storeVars, streamVars, sysVars, clientVars, dbVars>>

\* socket.on("join-app"): the connection enters the room of the workspace
JoinApp(s, a) ==
    /\ EventLoopFree
    /\ Sends(s, JoinEvent(a))
    /\ rooms' = [rooms EXCEPT ![s] = @ \cup {a}]
    /\ UNCHANGED <<owner, processes, calls, child, pkgJson, nodeModules, received, resp, storeVars, streamVars, sysVars, clientVars, dbVars>>

\* Variant of LeaveApp that leaves the connection in the room.
LeaveApp_KeepsRoom(s, a) ==
    /\ EventLoopFree
    /\ Sends(s, LeaveEvent(a))
    /\ UNCHANGED rooms
    /\ UNCHANGED <<owner, processes, calls, child, pkgJson, nodeModules, received, resp, storeVars, streamVars, sysVars, clientVars, dbVars>>

\* socket.on("leave-app")
LeaveApp(s, a) ==
    /\ EventLoopFree
    /\ Sends(s, LeaveEvent(a))
    /\ rooms' = [rooms EXCEPT ![s] = @ \ {a}]
    /\ UNCHANGED <<owner, processes, calls, child, pkgJson, nodeModules, received, resp, storeVars, streamVars, sysVars, clientVars, dbVars>>

\* socket.on("disconnect"): socket.io removes the connection from its rooms
Disconnect(s) ==
    /\ EventLoopFree
    /\ Sends(s, DisconnectEvent)
    /\ rooms' = [rooms EXCEPT ![s] = {}]
    /\ UNCHANGED <<owner, processes, calls, child, pkgJson, nodeModules, received, resp, storeVars, streamVars, sysVars, clientVars, dbVars>>

\* the values of the userId key of a PATCH body; NoUser: the body has no
\* such key
BodyUserIds == Users \cup {NoUser}

(* PATCH /:id of the apps routes: 404 for a workspace of another user,     *)
(* else update(apps).set({...req.body, updatedAt}) on the row              *)
PatchApp(u, a, userId) ==
    /\ EventLoopFree
    /\ IF ~OwnsApp(u, a)
         THEN /\ resp' = [kind |-> "patch", app |-> a, status |-> 404]
              /\ UNCHANGED owner
         ELSE /\ resp' = [kind |-> "patch", app |-> a, status |-> 200]
              /\ owner' = IF userId = NoUser THEN owner ELSE [owner EXCEPT ![a] = userId]
    /\ UNCHANGED <<processes, calls, child, pkgJson, nodeModules, rooms, sent, received, storeVars, streamVars, sysVars, clientVars, dbVars>>

(* DELETE /:id of the apps routes                                          *)
DeleteApp(u, a) ==
    /\ EventLoopFree
    /\ owner' = IF OwnsApp(u, a) THEN [owner EXCEPT ![a] = NoUser] ELSE owner
    /\ UNCHANGED <<processes, calls, child, pkgJson, nodeModules, rooms, sent, received, resp, storeVars, streamVars, sysVars, clientVars, dbVars>>

(***************************************************************************)
(* Storage layer: path resolution and the file operations behind the file  *)
(* routes and the AI file tools.  A path string is the sequence of its     *)
(* "/"-separated segments: "a//b/" is <<"a", "", "b", "">>, "" is <<"">>.  *)
(***************************************************************************)
\* the segments client-supplied paths are built from
Segs == {"..", ".", "", "f"}

\* the client-supplied paths: req.params[0] of the routes, `path` of the tools
RelPaths == UNION {[1 .. n -> Segs] : n \in 1 .. MaxPathLen}

\* STORAGE_BASE: process.env.STORAGE_PATH || "./data"
STORAGE_BASE == <<".", "data">>

IdStr(i) == ToString(i)

\* client-supplied paths that name another user's directory: ".." segments,
\* the id of user 2, the id of that user's workspace 3 and a file name
CrossSegs == {"..", IdStr(2), IdStr(3), "f"}

CrossPaths == UNION {[1 .. n -> CrossSegs] : n \in 1 .. MaxPathLen}

\* Storage.getUserAppPath: path.join("apps", userId, appId)
getUserAppPath(u, a) == <<"apps", IdStr(u), IdStr(a)>>

\* `${appPath}/${filePath}` of the routes and tools
Concat(appPath, rel) == appPath \o rel

RECURSIVE NormalizeFrom(_, _, _)
\* normalizeString of node's path module: drop "" and ".", let ".." remove
\* the segment before it, keep ".." that has nothing to remove
NormalizeFrom(p, i, acc) ==
    IF i > Len(p) THEN acc
    ELSE IF p[i] \in {"", "."} THEN NormalizeFrom(p, i + 1, acc)
    ELSE IF p[i] = ".."
      THEN IF Len(acc) > 0 /\ acc[Len(acc)] # ".."
             THEN NormalizeFrom(p, i + 1, SubSeq(acc, 1, Len(acc) - 1))
             ELSE NormalizeFrom(p, i + 1, Append(acc, ".."))
    ELSE NormalizeFrom(p, i + 1, Append(acc, p[i]))

NormalizeString(p) == NormalizeFrom(p, 1, <<>>)

TrailingSlash(p) == Len(p) > 1 /\ p[Len(p)] = ""

\* path.normalize (posix) of a relative path string
normalize(p) ==
    LET r == NormalizeString(p)
    IN  IF r = <<>>
          THEN IF TrailingSlash(p) THEN <<".", "">> ELSE <<".">>
          ELSE IF TrailingSlash(p) THEN Append(r, "") ELSE r

RECURSIVE StripLeadingDotDot(_)
\* .replace(/^(\.\.[\/\\])+/, ""): remove every leading "../"
StripLeadingDotDot(p) ==
    IF Len(p) >= 2 /\ p[1] = ".." THEN StripLeadingDotDot(Tail(p)) ELSE p

\* path.join(a, b): normalize(a + "/" + b), ignoring an empty b
join(a, b) == IF b = <<"">> THEN normalize(a) ELSE normalize(a \o b)

\* Storage.getFullPath
getFullPath(relativePath) ==
    join(STORAGE_BASE, StripLeadingDotDot(normalize(relativePath)))

\* the file-system object a path string names: its segments without "." and
\* the trailing slash (<<>> is the working directory of the server)
Resolved(p) == NormalizeString(p)

IsPrefix(r, p) == Len(r) <= Len(p) /\ SubSeq(p, 1, Len(r)) = r

\* the storage root and the root of workspace (u, a) as file-system objects
BaseRoot == Resolved(STORAGE_BASE)
WorkspaceRoot(u, a) == Resolved(STORAGE_BASE \o getUserAppPath(u, a))

Ancestors(p) == {SubSeq(p, 1, n) : n \in 0 .. (Len(p) - 1)}

\* directories that exist whatever the requests do: the working directory,
\* what lies above it, and the directories Storage.initialize creates
FixedDirs(p) == p \in Ancestors(BaseRoot \o <<"apps", "x">>) \/ (\A i \in 1 .. Len(p) : p[i] = "..")

IsDir(p) == p \in dirs \/ FixedDirs(p)

\* fs.access / fs.stat succeed (a trailing slash names only a directory)
Exists(full) ==
    IsDir(Resolved(full)) \/ (Resolved(full) \in files /\ ~TrailingSlash(full))

\* fs.mkdir(dirname, {recursive: true}) then fs.writeFile succeed
CanWrite(full) ==
    /\ ~TrailingSlash(full)
    /\ ~IsDir(Resolved(full))
    /\ \A d \in Ancestors(Resolved(full)) : d \notin files

NoIo == [op |-> "none", user |-> NoUser, app |-> 0, rel |-> <<>>, path |-> <<>>,
         io |-> "none", status |-> "none"]

Io(op, u, a, rel, full, io, status) ==
    [op |-> op, user |-> u, app |-> a, rel |-> rel, path |-> Resolved(full),
     io |-> io, status |-> status]

\* Storage.writeFile
writeFile(op, u, a, rel, full) ==
    IF CanWrite(full)
      THEN /\ files' = files \cup {Resolved(full)}
           /\ dirs' = dirs \cup {d \in Ancestors(Resolved(full)) : ~FixedDirs(d)}
           /\ lastIo' = Io(op, u, a, rel, full, "write", "ok")
      ELSE /\ UNCHANGED <<files, dirs>>
           /\ lastIo' = Io(op, u, a, rel, full, "write", "error")

\* Storage.deleteDir: fs.rm(fullPath, {recursive: true, force: true})
deleteDir(op, u, a, rel, full) ==
    /\ files' = {f \in files : ~IsPrefix(Resolved(full), f)}
    /\ dirs' = {d \in dirs : ~IsPrefix(Resolved(full), d)}
    /\ lastIo' = Io(op, u, a, rel, full, "rm", "ok")

\* Storage.deleteFile: fs.unlink(fullPath)
deleteFile(op, u, a, rel, full) ==
    IF Resolved(full) \in files /\ ~TrailingSlash(full)
      THEN /\ files' = files \ {Resolved(full)}
           /\ UNCHANGED dirs
           /\ lastIo' = Io(op, u, a, rel, full, "unlink", "ok")
      ELSE /\ UNCHANGED <<files, dirs>>
           /\ lastIo' = Io(op, u, a, rel, full, "unlink", "error")

\* the files the workspaces hold at the start
InitFiles == {WorkspaceRoot(1, 1) \o <<"f">>, WorkspaceRoot(1, 2) \o <<"f">>}

\* one more file request is served
Served == EventLoopFree /\ ioCount < MaxOps /\ ioCount' = ioCount + 1

(* GET /app/:appId/*                                                       *)
GetFile(u, a, rel) ==
    LET full == getFullPath(Concat(getUserAppPath(u, a), rel))
    IN  /\ Served
        /\ lastIo' =
            IF ~OwnsApp(u, a) THEN Io("GET", u, a, rel, <<>>, "none", "appNotFound")
            ELSE IF ~Exists(full) THEN Io("GET", u, a, rel, full, "access", "notFound")
            ELSE IF IsDir(Resolved(full)) THEN Io("GET", u, a, rel, full, "readdir", "ok")
            ELSE Io("GET", u, a, rel, full, "read", "ok")
        /\ UNCHANGED <<files, dirs, procVars, streamVars, sysVars, clientVars, dbVars>>

(* PUT /app/:appId/*: 400 when the body has no content field, then the   *)
(* ownership lookup, then the write                                        *)
PutFile(u, a, rel, hasContent) ==
    LET full == getFullPath(Concat(getUserAppPath(u, a), rel))
    IN  /\ Served
        /\ IF ~hasContent
             THEN /\ lastIo' = Io("PUT", u, a, rel, <<>>, "none", "badRequest")
                  /\ UNCHANGED <<files, dirs>>
             ELSE IF ~OwnsApp(u, a)
               THEN /\ lastIo' = Io("PUT", u, a, rel, <<>>, "none", "appNotFound")
                    /\ UNCHANGED <<files, dirs>>
               ELSE writeFile("PUT", u, a, rel, full)
        /\ UNCHANGED <<procVars, streamVars, sysVars, clientVars, dbVars>>

(* DELETE /app/:appId/*                                                    *)
DeleteFile(u, a, rel) ==
    LET full == getFullPath(Concat(getUserAppPath(u, a), rel))
    IN  /\ Served
        /\ IF ~OwnsApp(u, a)
             THEN /\ lastIo' = Io("DELETE", u, a, rel, <<>>, "none", "appNotFound")
                  /\ UNCHANGED <<files, dirs>>
             ELSE IF ~Exists(full)
               THEN /\ lastIo' = Io("DELETE", u, a, rel, full, "access", "notFound")
                    /\ UNCHANGED <<files, dirs>>
               ELSE IF IsDir(Resolved(full))
                 THEN deleteDir("DELETE", u, a, rel, full)
                 ELSE deleteFile("DELETE", u, a, rel, full)
        /\ UNCHANGED <<procVars, streamVars, sysVars, clientVars, dbVars>>

(* GET /app/:appId: ensureDir(appPath), then list it                       *)
ListApp(u, a) ==
    LET full == getFullPath(getUserAppPath(u, a))
    IN  /\ Served
        /\ IF ~OwnsApp(u, a)
             THEN /\ lastIo' = Io("LIST", u, a, <<>>, <<>>, "none", "appNotFound")
                  /\ UNCHANGED dirs
             ELSE /\ lastIo' = Io("LIST", u, a, <<>>, full, "readdir", "ok")
                  /\ dirs' = dirs \cup {d \in Ancestors(Resolved(full)) \cup {Resolved(full)} :
                                          ~FixedDirs(d)}
        /\ UNCHANGED <<files, procVars, streamVars, sysVars, clientVars, dbVars>>

(* createFileTools(context).writeFile / readFile / listFiles / deleteFile, *)
(* bound to a workspace of the user whose chat is being generated          *)
ToolWriteFile(u, a, rel) ==
    LET full == getFullPath(Concat(getUserAppPath(u, a), rel))
    IN  /\ Served
        /\ OwnsApp(u, a)
        /\ writeFile("writeFile", u, a, rel, full)
        /\ UNCHANGED <<procVars, streamVars, sysVars, clientVars, dbVars>>

ToolReadFile(u, a, rel) ==
    LET full == getFullPath(Concat(getUserAppPath(u, a), rel))
    IN  /\ Served
        /\ OwnsApp(u, a)
        /\ lastIo' = Io("readFile", u, a, rel, full, "read",
                        IF Resolved(full) \in files /\ ~TrailingSlash(full) THEN "ok" ELSE "error")
        /\ UNCHANGED <<files, dirs, procVars, streamVars, sysVars, clientVars, dbVars>>

ToolListFiles(u, a, rel) ==
    LET full == getFullPath(Concat(getUserAppPath(u, a), rel))
    IN  /\ Served
        /\ OwnsApp(u, a)
        /\ lastIo' = Io("listFiles", u, a, rel, full, "readdir", "ok")
        /\ UNCHANGED <<files, dirs, procVars, streamVars, sysVars, clientVars, dbVars>>

ToolDeleteFile(u, a, rel) ==
    LET full == getFullPath(Concat(getUserAppPath(u, a), rel))
    IN  /\ Served
        /\ OwnsApp(u, a)
        /\ deleteFile("deleteFile", u, a, rel, full)
        /\ UNCHANGED <<procVars, streamVars, sysVars, clientVars, dbVars>>

(***************************************************************************)
(* Generation streams: POST /stream/:chatId and POST /stream/cancel/:id     *)
(* (routes/stream.ts).  A handler is cut at its awaits; the database        *)
(* executes an insert while the handler that issued it is suspended.        *)
(***************************************************************************)

Gens == 1 .. MaxGens

NoGen == 0

ChatIds == {1, 2, 3}

\* rows of the chats table: chat -> app (chat 3 never exists)
chatApp == (1 :> 1) @@ (2 :> 3)

Chunks == {"a", "b"}

\* the tools of createFileTools
Tools == {"writeFile", "readFile", "listFiles", "deleteFile"}

\* the tools whose execute changes the file tree (storage.writeFile,
\* storage.deleteFile)
MutatingTools == {"writeFile", "deleteFile"}

\* the tools whose result object carries the path argument
PathTools == {"writeFile", "readFile", "deleteFile"}

\* `${chatId}-${Date.now()}`
StreamIds == {1, 2} \X (0 .. MaxTime)

NoSid == <<0, 0>>

IdleGen ==
    [chat |-> 0, user |-> NoUser, pc |-> "idle", echo |-> FALSE, sid |-> NoSid,
     full |-> <<>>, frames |-> <<>>, tools |-> <<>>, userMsg |-> 0]

ChatExists(c) == c \in chats /\ owner[chatApp[c]] # NoUser

ErrorFrame(msg) == [type |-> "error", error |-> msg]

StatusFrame(msg) == [type |-> "status", message |-> msg]

MessageFrame(row) == [type |-> "message", message |-> row]

StreamIdFrame(sid) == [type |-> "streamId", streamId |-> sid]

ChunkFrame(ch, fullResponse) == [type |-> "chunk", content |-> ch, fullContent |-> fullResponse]

FileUpdateFrame(t) == [type |-> "fileUpdate", path |-> t]

EndFrame(row, c) == [type |-> "end", message |-> row, chatId |-> c]

UserRow(g) == [chatId |-> gens[g].chat, role |-> "user", content |-> <<"p">>, requestId |-> NoGen]

AssistantRow(g) ==
    [chatId |-> gens[g].chat, role |-> "assistant", content |-> gens[g].full, requestId |-> g]

\* the handler ends the response (res.end) and returns
Ended(g, frs) == gens' = [gens EXCEPT ![g].pc = "done", ![g].frames = frs]

\* finally { activeStreams.delete(streamId) }
Released(sid) == [activeStreams EXCEPT ![sid] = NoGen]

\* Lines 168-180: register the abort controller under the stream id, announce
\* the id, then pick the model client, which throws without an API key
\* (error frame, finally, res.end).
OpenStream(g, rec, keyOk) ==
    LET sid == <<rec.chat, now>>
        out == Append(rec.frames, StreamIdFrame(sid))
    IN  IF keyOk
        THEN /\ gens' = [gens EXCEPT ![g] = [rec EXCEPT !.pc = "streaming", !.sid = sid,
                                                        !.frames = out]]
             /\ activeStreams' = [activeStreams EXCEPT ![sid] = g]
        ELSE /\ gens' = [gens EXCEPT ![g] = [rec EXCEPT !.pc = "done", !.sid = sid,
                             !.frames = Append(out, ErrorFrame("key not configured"))]]
             /\ activeStreams' = Released(sid)

\* Lines 142-155: with a prompt and no redo the user message is inserted
\* first (await); otherwise the handler goes on to open the stream.
SaveUserMessage(g, rec, keyOk) ==
    IF rec.echo
    THEN /\ gens' = [gens EXCEPT ![g] = [rec EXCEPT !.pc = "insertingUser"]]
         /\ UNCHANGED activeStreams
    ELSE OpenStream(g, rec, keyOk)

\* POST /:chatId up to the first await that matters: chat lookup, ownership,
\* settings, isProjectInitialized.
StreamRequest(g, u, c, prompt, redo, keyOk) ==
    /\ EventLoopFree
    /\ gens[g].pc = "idle"
    /\ \A h \in Gens : h < g => gens[h].pc # "idle"
    /\ LET rec == [IdleGen EXCEPT !.chat = c, !.user = u, !.echo = (~redo /\ prompt)]
       IN  IF ~ChatExists(c)
           THEN /\ gens' = [gens EXCEPT ![g] = [rec EXCEPT !.pc = "done",
                                !.frames = <<ErrorFrame("Chat not found")>>]]
                /\ UNCHANGED activeStreams
           ELSE IF owner[chatApp[c]] # u
           THEN /\ gens' = [gens EXCEPT ![g] = [rec EXCEPT !.pc = "done",
                                !.frames = <<ErrorFrame("Access denied")>>]]
                /\ UNCHANGED activeStreams
           ELSE IF chatApp[c] \notin pkgJson
           THEN /\ gens' = [gens EXCEPT ![g] = [rec EXCEPT !.pc = "initializing",
                                !.frames = <<StatusFrame("Initializing project...")>>]]
                /\ UNCHANGED activeStreams
           ELSE SaveUserMessage(g, rec, keyOk)
    /\ UNCHANGED <<messages, aborted, now, procVars, storeVars, sysVars, clientVars, dbVars>>

\* Lines 131-139: initializeProject returned or threw.
InitDone(g, ok, keyOk) ==
    /\ EventLoopFree
    /\ gens[g].pc = "initializing"
    /\ IF ok
       THEN /\ pkgJson' = pkgJson \cup {chatApp[gens[g].chat]}
            /\ SaveUserMessage(g, [gens[g] EXCEPT !.frames =
                   Append(gens[g].frames, StatusFrame("Project initialized!"))], keyOk)
       ELSE /\ Ended(g, Append(gens[g].frames, ErrorFrame("Failed to initialize project")))
            /\ UNCHANGED <<pkgJson, activeStreams>>
    /\ UNCHANGED <<messages, aborted, now, storeVars,
                   owner, processes, calls, child, nodeModules, rooms, sent, received, resp, sysVars, clientVars, dbVars>>

\* The database executes the insert of the user message.
UserCommit(g) ==
    /\ gens[g].pc = "insertingUser"
    /\ IF ChatExists(gens[g].chat)
       THEN /\ messages' = Append(messages, UserRow(g))
            /\ gens' = [gens EXCEPT ![g].pc = "userCommitted", ![g].userMsg = Len(messages) + 1]
       ELSE /\ gens' = [gens EXCEPT ![g].pc = "userInsertFailed"]
            /\ UNCHANGED messages
    /\ UNCHANGED <<activeStreams, aborted, now, procVars, storeVars, sysVars, clientVars, dbVars>>

\* Variant of UserInserted that announces the stream id without echoing the
\* user message.
UserInserted_NoEcho(g, keyOk) ==
    /\ EventLoopFree
    /\ gens[g].pc = "userCommitted"
    /\ OpenStream(g, gens[g], keyOk)
    /\ UNCHANGED <<messages, aborted, now, procVars, storeVars, sysVars, clientVars, dbVars>>

\* Lines 153-180: the handler resumes after the insert, echoes the user
\* message and opens the stream.
UserInserted(g, keyOk) ==
    /\ EventLoopFree
    /\ gens[g].pc = "userCommitted"
    /\ OpenStream(g, [gens[g] EXCEPT !.frames = Append(@, MessageFrame(UserRow(g)))], keyOk)
    /\ UNCHANGED <<messages, aborted, now, procVars, storeVars, sysVars, clientVars, dbVars>>

\* Variant of Chunk that writes the frame before it appends the chunk to
\* fullResponse.
Chunk_StaleFullContent(g, ch) ==
    /\ EventLoopFree
    /\ gens[g].pc = "streaming"
    /\ ~aborted[g]
    /\ Len(gens[g].full) < MaxChunks
    /\ LET fullResponse == Append(gens[g].full, ch)
       IN  gens' = [gens EXCEPT ![g].full = fullResponse,
                                ![g].frames = Append(@, ChunkFrame(ch, gens[g].full))]
    /\ UNCHANGED <<messages, activeStreams, aborted, now, procVars, storeVars, sysVars, clientVars, dbVars>>

\* Lines 211-224: one text chunk of the model stream.
Chunk(g, ch) ==
    /\ EventLoopFree
    /\ gens[g].pc = "streaming"
    /\ ~aborted[g]
    /\ Len(gens[g].full) < MaxChunks
    /\ LET fullResponse == Append(gens[g].full, ch)
       IN  gens' = [gens EXCEPT ![g].full = fullResponse,
                                ![g].frames = Append(@, ChunkFrame(ch, fullResponse))]
    /\ UNCHANGED <<messages, activeStreams, aborted, now, procVars, storeVars, sysVars, clientVars, dbVars>>

\* Lines 189-205: onStepFinish after a step with one tool result: a
\* fileUpdate frame when the result has success and a path.
ToolStep(g, t, success) ==
    /\ EventLoopFree
    /\ gens[g].pc = "streaming"
    /\ ~aborted[g]
    /\ Len(gens[g].tools) < maxSteps
    /\ gens' = [gens EXCEPT ![g].tools = Append(@, [tool |-> t, success |-> success]),
                             ![g].frames = IF success /\ t \in PathTools
                                             THEN Append(@, FileUpdateFrame(t))
                                             ELSE @]
    /\ UNCHANGED <<messages, activeStreams, aborted, now, procVars, storeVars, sysVars, clientVars, dbVars>>

\* The loop sees the aborted signal (break) or the stream throws AbortError:
\* nothing is persisted, no frame is written, the session is released.
AbortObserved(g) ==
    /\ EventLoopFree
    /\ gens[g].pc = "streaming"
    /\ aborted[g]
    /\ activeStreams' = Released(gens[g].sid)
    /\ Ended(g, gens[g].frames)
    /\ UNCHANGED <<messages, aborted, now, procVars, storeVars, sysVars, clientVars, dbVars>>

\* Variant of StreamError that writes the error frame and goes on reading
\* the model stream.
StreamError_KeepsStreaming(g) ==
    /\ EventLoopFree
    /\ gens[g].pc = "streaming"
    /\ ~aborted[g]
    /\ ~\E i \in 1 .. Len(gens[g].frames) : gens[g].frames[i].type = "error"
    /\ gens' = [gens EXCEPT ![g].frames = Append(@, ErrorFrame("Streaming failed"))]
    /\ UNCHANGED activeStreams
    /\ UNCHANGED <<messages, aborted, now, procVars, storeVars, sysVars, clientVars, dbVars>>

\* Lines 245-252: the model stream fails.
StreamError(g) ==
    /\ EventLoopFree
    /\ gens[g].pc = "streaming"
    /\ ~aborted[g]
    /\ activeStreams' = Released(gens[g].sid)
    /\ Ended(g, Append(gens[g].frames, ErrorFrame("Streaming failed")))
    /\ UNCHANGED <<messages, aborted, now, procVars, storeVars, sysVars, clientVars, dbVars>>

\* Lines 226-236: the model stream is exhausted; a non-empty response of a
\* stream that is not aborted is handed to the database (await).
StreamEnd(g) ==
    /\ EventLoopFree
    /\ gens[g].pc = "streaming"
    /\ ~aborted[g]
    /\ IF gens[g].full # <<>>
       THEN /\ gens' = [gens EXCEPT ![g].pc = "insertingAssistant"]
            /\ UNCHANGED activeStreams
       ELSE /\ activeStreams' = Released(gens[g].sid)
            /\ Ended(g, gens[g].frames)
    /\ UNCHANGED <<messages, aborted, now, procVars, storeVars, sysVars, clientVars, dbVars>>

\* The database executes the insert of the assistant message.
AssistantCommit(g) ==
    /\ gens[g].pc = "insertingAssistant"
    /\ IF ChatExists(gens[g].chat)
       THEN /\ messages' = Append(messages, AssistantRow(g))
            /\ gens' = [gens EXCEPT ![g].pc = "assistantCommitted"]
       ELSE /\ gens' = [gens EXCEPT ![g].pc = "assistantInsertFailed"]
            /\ UNCHANGED messages
    /\ UNCHANGED <<activeStreams, aborted, now, procVars, storeVars, sysVars, clientVars, dbVars>>

\* Variant of Finish without the finally block.
Finish_KeepsSession(g) ==
    /\ EventLoopFree
    /\ gens[g].pc = "assistantCommitted"
    /\ UNCHANGED activeStreams
    /\ Ended(g, Append(gens[g].frames, EndFrame(AssistantRow(g), gens[g].chat)))
    /\ UNCHANGED <<messages, aborted, now, procVars, storeVars, sysVars, clientVars, dbVars>>

\* Lines 238-257: the handler resumes after the insert: end frame, finally,
\* res.end().
Finish(g) ==
    /\ EventLoopFree
    /\ gens[g].pc = "assistantCommitted"
    /\ activeStreams' = Released(gens[g].sid)
    /\ Ended(g, Append(gens[g].frames, EndFrame(AssistantRow(g), gens[g].chat)))
    /\ UNCHANGED <<messages, aborted, now, procVars, storeVars, sysVars, clientVars, dbVars>>

\* The insert was rejected (chat_id references a chats row that is gone) and
\* the await throws: the user insert lands in the outer catch (error frame,
\* res.end), the assistant insert in the inner catch and the finally.
InsertFailed(g) ==
    /\ EventLoopFree
    /\ gens[g].pc \in {"userInsertFailed", "assistantInsertFailed"}
    /\ activeStreams' = IF gens[g].pc = "assistantInsertFailed"
                          THEN Released(gens[g].sid) ELSE activeStreams
    /\ Ended(g, Append(gens[g].frames, ErrorFrame("insert failed")))
    /\ UNCHANGED <<messages, aborted, now, procVars, storeVars, sysVars, clientVars, dbVars>>

\* Lines 269-276: the answer of POST /cancel/:streamId
CancelResponse(sid) ==
    IF activeStreams[sid] # NoGen
      THEN [status |-> 200, success |-> TRUE]
      ELSE [status |-> 404, success |-> FALSE]

\* Variant of Cancel that aborts the controller and keeps the session.
Cancel_KeepsSession(u, sid) ==
    /\ EventLoopFree
    /\ IF CancelResponse(sid).status = 200
         THEN /\ aborted' = [aborted EXCEPT ![activeStreams[sid]] = TRUE]
              /\ UNCHANGED activeStreams
         ELSE UNCHANGED <<aborted, activeStreams>>
    /\ UNCHANGED <<messages, gens, now, procVars, storeVars, sysVars, clientVars, dbVars>>

\* POST /cancel/:streamId by any authenticated user: abort the registered
\* controller and delete the session, or answer 404 and change nothing.
Cancel(u, sid) ==
    /\ EventLoopFree
    /\ IF CancelResponse(sid).status = 200
         THEN /\ aborted' = [aborted EXCEPT ![activeStreams[sid]] = TRUE]
              /\ activeStreams' = Released(sid)
         ELSE UNCHANGED <<aborted, activeStreams>>
    /\ UNCHANGED <<messages, gens, now, procVars, storeVars, sysVars, clientVars, dbVars>>

\* The millisecond clock advances.
Tick ==
    /\ now < MaxTime
    /\ now' = now + 1
    /\ UNCHANGED <<messages, activeStreams, aborted, gens, procVars, storeVars, sysVars, clientVars, dbVars>>

InitStream ==
    /\ messages = <<>>
    /\ activeStreams = [sid \in StreamIds |-> NoGen]
    /\ aborted = [g \in Gens |-> FALSE]
    /\ gens = [g \in Gens |-> IdleGen]
    /\ now = 0

(***************************************************************************)
(* Shutdown: the SIGTERM / SIGINT handlers of index.ts                     *)
(***************************************************************************)

\* process.on("SIGTERM" | "SIGINT"): the handler starts and awaits
\* closeDatabase(); the event loop goes on serving while the pool drains.
Signal ==
    /\ EventLoopFree
    /\ server = "up"
    /\ server' = "closing"
    /\ UNCHANGED <<procVars, storeVars, streamVars, clientVars, dbVars>>

\* closeDatabase() has returned: process.exit(0).  The maps in the memory
\* of the Node process (leases, stream sessions, rooms) end with it and its
\* connections are closed; the handler has sent nothing to the children,
\* which are separate operating-system processes and stay as they are.
ExitProcess ==
    /\ EventLoopFree
    /\ server = "closing"
    /\ server' = "exited"
    /\ processes' = [a \in AppIds |-> NoLease]
    /\ activeStreams' = [sid \in StreamIds |-> NoGen]
    /\ rooms' = [s \in Sockets |-> {}]
    /\ sent' = [s \in Sockets |-> Append(sent[s], DisconnectEvent)]
    /\ UNCHANGED <<owner, calls, child, pkgJson, nodeModules, received, resp, storeVars,
                   messages, aborted, gens, now, clientVars, dbVars>>

InitSys == server = "up"

(***************************************************************************)
(* Rows of the database behind the chats and apps routes                   *)
(***************************************************************************)
\* the messages table without the rows of chat c (chat_id ... onDelete cascade)
CascadeChat(c) ==
    LET Keep(m) == m.chatId # c IN SelectSeq(messages, Keep)

\* Variant of DeleteChat that deletes the chats row and leaves its messages.
DeleteChat_NoCascade(u, c) ==
    /\ EventLoopFree
    /\ IF ~ChatExists(c)
         THEN /\ resp' = [kind |-> "deleteChat", chat |-> c, status |-> 404]
              /\ UNCHANGED <<chats, messages>>
         ELSE IF owner[chatApp[c]] # u
           THEN /\ resp' = [kind |-> "deleteChat", chat |-> c, status |-> 403]
                /\ UNCHANGED <<chats, messages>>
           ELSE /\ resp' = [kind |-> "deleteChat", chat |-> c, status |-> 200]
                /\ chats' = chats \ {c}
                /\ UNCHANGED messages
    /\ UNCHANGED <<owner, processes, calls, child, pkgJson, nodeModules, rooms, sent, received,
                   storeVars, activeStreams, aborted, gens, now, sysVars, clientVars, creates>>

(* DELETE /:id of the chats routes: 404 without the row, 403 for another   *)
(* user's chat, else delete the row; the database deletes its messages.    *)
DeleteChat(u, c) ==
    /\ EventLoopFree
    /\ IF ~ChatExists(c)
         THEN /\ resp' = [kind |-> "deleteChat", chat |-> c, status |-> 404]
              /\ UNCHANGED <<chats, messages>>
         ELSE IF owner[chatApp[c]] # u
           THEN /\ resp' = [kind |-> "deleteChat", chat |-> c, status |-> 403]
                /\ UNCHANGED <<chats, messages>>
           ELSE /\ resp' = [kind |-> "deleteChat", chat |-> c, status |-> 200]
                /\ chats' = chats \ {c}
                /\ messages' = CascadeChat(c)
    /\ UNCHANGED <<owner, processes, calls, child, pkgJson, nodeModules, rooms, sent, received,
                   storeVars, activeStreams, aborted, gens, now, sysVars, clientVars, creates>>

CreateIds == 1 .. MaxCreates

\* req.body.prompt: absent, a string, or a truthy value that is no string
Prompts == {"none", "text", "number"}

IdleCreate == [pc |-> "idle", user |-> NoUser, prompt |-> "none", app |-> FALSE, chat |-> FALSE]

(* POST / of the apps routes up to the insert of the apps row (await)      *)
CreateRequest(k, u, hasName, prompt) ==
    /\ EventLoopFree
    /\ creates[k].pc = "idle"
    /\ \A j \in CreateIds : j < k => creates[j].pc # "idle"
    /\ creates' = [creates EXCEPT ![k] =
                      [IdleCreate EXCEPT !.user = u, !.prompt = prompt,
                                         !.pc = IF hasName THEN "insertingApp" ELSE "badRequest"]]
    /\ UNCHANGED <<procVars, storeVars, streamVars, sysVars, clientVars, chats>>

\* The insert of the apps row returned or threw; with the row the handler
\* computes the title, prompt.substring(0, 50), which throws for a prompt
\* that is no string, and hands the chats row to the database (await).
AppInserted(k, ok) ==
    /\ EventLoopFree
    /\ creates[k].pc = "insertingApp"
    /\ creates' = [creates EXCEPT ![k].app = ok,
                                  ![k].pc = IF ok /\ creates[k].prompt # "number"
                                              THEN "insertingChat" ELSE "failed"]
    /\ UNCHANGED <<procVars, storeVars, streamVars, sysVars, clientVars, chats>>

\* The insert of the chats row returned ({app, chat}) or threw (500).
ChatInserted(k, ok) ==
    /\ EventLoopFree
    /\ creates[k].pc = "insertingChat"
    /\ creates' = [creates EXCEPT ![k].chat = ok, ![k].pc = IF ok THEN "done" ELSE "failed"]
    /\ UNCHANGED <<procVars, storeVars, streamVars, sysVars, clientVars, chats>>

(***************************************************************************)
(* API client: the reader of the SSE response (ApiClient.streamMessage)    *)
(***************************************************************************)

\* the contents a frame carries: a character of one byte and a character
\* whose UTF-8 encoding has two bytes
Vals == {"a", "U+00E9"}

\* the line feed
LF == "\n"

\* a frame on the wire: its type and the field the client reads from it
\* (message.content, fullContent, error)
WireFrame(type, val) == [type |-> type, val |-> val]

\* The frames the route writes, as the client tells them apart: status
\* stands for the types without a case in the client's switch (status,
\* streamId, fileUpdate).
ClientFrames ==
    {WireFrame(t, v) : t \in {"message", "chunk", "error"}, v \in Vals}
        \cup {WireFrame("status", "a"), WireFrame("end", "a")}

\* The responses of the route, up to MaxFrames frames: an end or error frame
\* is the last frame, the user message frame is written once and before the
\* chunk frames.
ServerStreams ==
    {fs \in UNION {[1 .. n -> ClientFrames] : n \in 1 .. MaxFrames} :
        /\ \A i \in 1 .. (Len(fs) - 1) : fs[i].type \notin {"end", "error"}
        /\ \A i, j \in 1 .. Len(fs) :
               (fs[i].type = "message" /\ i # j) =>
                   /\ fs[j].type # "message"
                   /\ fs[j].type = "chunk" => i < j}

\* JSON.stringify of a frame, as characters
TypeTag == [status |-> "s", message |-> "m", chunk |-> "c", end |-> "e", error |-> "x"]

Stringify(f) == <<"{", TypeTag[f.type], f.val, "}">>

\* the prefix of an SSE data line
DataPrefix == <<"d", "a", "t", "a", ":", " ">>

\* the UTF-8 bytes of a character
Utf8(ch) == IF ch = "U+00E9" THEN <<"0xC3", "0xA9">> ELSE <<ch>>

RECURSIVE Encode(_)
Encode(chars) ==
    IF chars = <<>> THEN <<>> ELSE Utf8(Head(chars)) \o Encode(Tail(chars))

\* res.write(`data: ${JSON.stringify(frame)}\n\n`): the bytes of one frame
FrameBytes(f) == Encode(DataPrefix \o Stringify(f) \o <<LF, LF>>)

\* the byte stream of a response
RECURSIVE WireOf(_)
WireOf(fs) ==
    IF fs = <<>> THEN <<>> ELSE FrameBytes(Head(fs)) \o WireOf(Tail(fs))

\* decoder.decode(value, { stream: true }): the characters of the bytes read,
\* a lead byte at the end of a read is kept until its continuation byte
\* arrives; a byte sequence that is not UTF-8 decodes to U+FFFD
RECURSIVE DecodeFrom(_, _, _)
DecodeFrom(pending, bytes, out) ==
    IF bytes = <<>> THEN [chars |-> out, pending |-> pending]
    ELSE IF pending = "0xC3"
           THEN IF Head(bytes) = "0xA9"
                  THEN DecodeFrom("", Tail(bytes), Append(out, "U+00E9"))
                  ELSE DecodeFrom("", bytes, Append(out, "U+FFFD"))
    ELSE IF Head(bytes) = "0xC3" THEN DecodeFrom("0xC3", Tail(bytes), out)
    ELSE IF Head(bytes) = "0xA9" THEN DecodeFrom("", Tail(bytes), Append(out, "U+FFFD"))
    ELSE DecodeFrom("", Tail(bytes), Append(out, Head(bytes)))

\* buffer.split("\n")
RECURSIVE SplitLines(_)
SplitLines(b) ==
    IF \A i \in 1 .. Len(b) : b[i] # LF THEN <<b>>
    ELSE LET i == CHOOSE k \in 1 .. Len(b) :
                      b[k] = LF /\ \A j \in 1 .. (k - 1) : b[j] # LF
         IN  <<SubSeq(b, 1, i - 1)>> \o SplitLines(SubSeq(b, i + 1, Len(b)))

\* JSON.parse succeeds on the text of a whole frame only
JsonOk(p) ==
    /\ Len(p) = 4
    /\ p[1] = "{"
    /\ p[4] = "}"
    /\ \E t \in DOMAIN TypeTag : TypeTag[t] = p[2]
    /\ p[3] \in Vals

TypeOfTag(tag) == CHOOSE t \in DOMAIN TypeTag : TypeTag[t] = tag

\* a callback the reader has called, with the messages passed to it
Called(cb, arg) == [cb |-> cb, arg |-> arg]

\* the chunk case of the switch: the content of the last message is replaced
\* when it is the assistant's, else an assistant message is pushed
WithChunk(msgs, v) ==
    IF Len(msgs) > 0 /\ msgs[Len(msgs)].role = "assistant"
      THEN [msgs EXCEPT ![Len(msgs)].content = v]
      ELSE Append(msgs, [role |-> "assistant", content |-> v])

\* The body of the loop over the lines: st is [msgs, events], the messages
\* collected and the callbacks called so far.
OnLine(st, line) ==
    IF ~IsPrefix(DataPrefix, line) THEN st
    ELSE LET p == SubSeq(line, Len(DataPrefix) + 1, Len(line)) IN
         IF ~JsonOk(p) THEN st
         ELSE LET type == TypeOfTag(p[2])
                  v == p[3]
              IN  CASE type = "message" ->
                         LET ms == Append(st.msgs, [role |-> "user", content |-> v])
                         IN  [msgs |-> ms, events |-> Append(st.events, Called("onUpdate", ms))]
                    [] type = "chunk" ->
                         LET ms == WithChunk(st.msgs, v)
                         IN  [msgs |-> ms, events |-> Append(st.events, Called("onUpdate", ms))]
                    [] type = "end" ->
                         [st EXCEPT !.events = Append(@, Called("onEnd", <<>>))]
                    [] type = "error" ->
                         [st EXCEPT !.events =
                             Append(@, Called("onError", <<[role |-> "error", content |-> v]>>))]
                    [] OTHER -> st

RECURSIVE OnLines(_, _)
OnLines(st, lines) ==
    IF lines = <<>> THEN st ELSE OnLines(OnLine(st, Head(lines)), Tail(lines))

\* Variant of Feed that does not keep the incomplete last line for the next
\* read.
Feed_DropsRemainder(rd, value) ==
    LET dec == DecodeFrom(rd.pending, value, <<>>)
        lines == SplitLines(rd.buffer \o dec.chars)
        st == OnLines([msgs |-> rd.msgs, events |-> rd.events],
                      SubSeq(lines, 1, Len(lines) - 1))
    IN  [rd EXCEPT !.pending = dec.pending, !.buffer = <<>>,
                   !.msgs = st.msgs, !.events = st.events]

\* One turn of the read loop with the read() result value: decode, append to
\* the buffer, split, keep the last piece as the new buffer, handle the
\* lines before it.
Feed(rd, value) ==
    LET dec == DecodeFrom(rd.pending, value, <<>>)
        lines == SplitLines(rd.buffer \o dec.chars)
        st == OnLines([msgs |-> rd.msgs, events |-> rd.events],
                      SubSeq(lines, 1, Len(lines) - 1))
    IN  [rd EXCEPT !.pending = dec.pending, !.buffer = lines[Len(lines)],
                   !.msgs = st.msgs, !.events = st.events]

\* the sizes a read() result can have: up to the longest response
ReadSizes == 1 .. (MaxFrames * Len(FrameBytes(WireFrame("chunk", "U+00E9"))))

\* the reader before streamMessage is called
NewReader ==
    [pc |-> "idle", frames |-> <<>>, rest |-> <<>>, pending |-> "", buffer |-> <<>>,
     msgs |-> <<>>, events |-> <<>>, split |-> FALSE]

\* streamMessage: the request is sent and answered with the response fs
streamMessage(fs) ==
    /\ reader.pc = "idle"
    /\ reader' = [reader EXCEPT !.pc = "reading", !.frames = fs, !.rest = WireOf(fs)]
    /\ UNCHANGED <<procVars, storeVars, streamVars, sysVars, dbVars>>

\* reader.read() resolves with the next n bytes of the response
ReaderRead(n) ==
    /\ reader.pc = "reading"
    /\ n \in 1 .. Len(reader.rest)
    /\ LET rd == Feed(reader, SubSeq(reader.rest, 1, n))
       IN  reader' = [rd EXCEPT !.rest = SubSeq(reader.rest, n + 1, Len(reader.rest)),
                                !.split = reader.split
                                            \/ (/\ n < Len(reader.rest)
                                                /\ (rd.buffer # <<>> \/ rd.pending # ""))]
    /\ UNCHANGED <<procVars, storeVars, streamVars, sysVars, dbVars>>

\* reader.read() resolves with done: the loop is left
ReaderDone ==
    /\ reader.pc = "reading"
    /\ reader.rest = <<>>
    /\ reader' = [reader EXCEPT !.pc = "closed"]
    /\ UNCHANGED <<procVars, storeVars, streamVars, sysVars, dbVars>>

InitClient == reader = NewReader

InitDb ==
    /\ chats = DOMAIN chatApp
    /\ creates = [k \in CreateIds |-> IdleCreate]

InitStore ==
    /\ files = InitFiles
    /\ dirs = {WorkspaceRoot(1, 1), WorkspaceRoot(1, 2), WorkspaceRoot(2, 3),
               Resolved(STORAGE_BASE \o <<"apps", "1">>),
               Resolved(STORAGE_BASE \o <<"apps", "2">>)}
    /\ lastIo = NoIo
    /\ ioCount = 0

InitProc ==
    /\ owner = (1 :> 1) @@ (2 :> 1) @@ (3 :> 2)
    /\ processes = [a \in AppIds |-> NoLease]
    /\ calls = [c \in CallIds |-> IdleCall]
    /\ child = [c \in CallIds |-> "none"]
    /\ pkgJson = {1, 2}
    /\ nodeModules = {1}
    /\ rooms = [s \in Sockets |-> {}]
    /\ sent = [s \in Sockets |-> <<>>]
    /\ received = [s \in Sockets |-> <<>>]
    /\ resp = NoResp

Init == InitProc /\ InitStore /\ InitStream /\ InitSys /\ InitClient /\ InitDb

NextProc ==
    \/ \E c \in CallIds, u \in Users, a \in AppIds : StartRequest(c, u, a)
    \/ \E c \in CallIds : StartCheckPackage(c)
    \/ \E c \in CallIds : StartSpawn(c)
    \/ \E c \in CallIds, ok \in BOOLEAN : InstallDone(c, ok)
    \/ \E c \in CallIds, e \in BOOLEAN : ChildData(c, e)
    \/ \E c \in CallIds : ChildExit(c)
    \/ \E u \in Users, a \in AppIds : StopRequest(u, a)
    \/ \E a \in AppIds : StatusRequest(a)
    \/ \E a \in AppIds, dbOk \in BOOLEAN : PreviewRequest(a, dbOk)
    \/ \E u \in Users, a \in DelApps : DeleteApp(u, a)

SpecProc == Init /\ [][NextProc]_vars

\* One start of workspace 2 by its owner, and a socket connection that
\* joins and leaves rooms while the log events are published.
NextLog ==
    \/ \E s \in Sockets, a \in LogApps : JoinApp(s, a)
    \/ \E s \in Sockets, a \in LogApps : LeaveApp(s, a)
    \/ \E s \in Sockets : Disconnect(s)
    \/ StartRequest(1, 1, 2)
    \/ \E c \in CallIds : StartCheckPackage(c)
    \/ \E c \in CallIds : StartSpawn(c)
    \/ \E c \in CallIds, ok \in BOOLEAN : InstallDone(c, ok)
    \/ \E c \in CallIds, e \in BOOLEAN : ChildData(c, e)
    \/ \E c \in CallIds : ChildExit(c)
    \/ StopRequest(1, 2)

SpecLog == Init /\ [][NextLog]_vars

\* The terminal hook: a page mounts useTerminal for a workspace, may mount the
\* API client's subscription on the same connection, and unmounts, while the
\* log events of a run are published.
NextHook ==
    \/ \E s \in Sockets, a \in LogApps : useTerminal(s, a)
    \/ \E s \in Sockets, a \in LogApps : JoinApp(s, a)
    \/ \E s \in Sockets : Disconnect(s)
    \/ StartRequest(1, 1, 2)
    \/ \E c \in CallIds : StartCheckPackage(c)
    \/ \E c \in CallIds : StartSpawn(c)
    \/ \E c \in CallIds, ok \in BOOLEAN : InstallDone(c, ok)
    \/ \E c \in CallIds, e \in BOOLEAN : ChildData(c, e)
    \/ \E c \in CallIds : ChildExit(c)
    \/ StopRequest(1, 2)

SpecHook == Init /\ [][NextHook]_vars

\* Starts of the workspaces that lack node_modules or package.json, by their
\* owners, with a socket connection joining their rooms.
NextFail ==
    \/ \E s \in Sockets, a \in FailApps : JoinApp(s, a)
    \/ \E c \in CallIds, a \in FailApps : StartRequest(c, owner[a], a)
    \/ \E c \in CallIds : StartCheckPackage(c)
    \/ \E c \in CallIds : StartSpawn(c)
    \/ \E c \in CallIds, ok \in BOOLEAN : InstallDone(c, ok)
    \/ \E c \in CallIds : ChildExit(c)

SpecFail == Init /\ [][NextFail]_vars

\* The owner's starts and stops of workspace 1, one generation, and a
\* shutdown signal; nothing runs in the Node process once it has exited.
NextShutdown ==
    \/ Signal
    \/ ExitProcess
    \/ server # "exited" /\ \E c \in CallIds : StartRequest(c, 1, 1)
    \/ server # "exited" /\ \E c \in CallIds : StartCheckPackage(c)
    \/ server # "exited" /\ \E c \in CallIds : StartSpawn(c)
    \/ server # "exited" /\ \E c \in CallIds : ChildExit(c)
    \/ server # "exited" /\ StopRequest(1, 1)
    \/ server # "exited" /\ \E keyOk \in BOOLEAN : StreamRequest(1, 1, 1, FALSE, FALSE, keyOk)
    \/ server # "exited" /\ \E ch \in Chunks : Chunk(1, ch)
    \/ server # "exited" /\ StreamEnd(1)
    \/ server # "exited" /\ AssistantCommit(1)
    \/ server # "exited" /\ Finish(1)

SpecShutdown == Init /\ [][NextShutdown]_vars

\* Workspace 1 and the requests that its owner (user 1) and another user
\* (user 2) send about it; the owner starts it once.
NextAccess ==
    \/ \E u \in Users : StartRequest(1, u, 1)
    \/ \E c \in CallIds : StartCheckPackage(c)
    \/ \E c \in CallIds : StartSpawn(c)
    \/ \E u \in Users : StopRequest(u, 1)
    \/ \E u \in Users : GetApp(u, 1)
    \/ ioCount < MaxOps /\ \E u \in Users, rel \in RelPaths : GetFile(u, 1, rel)
    \/ ioCount < MaxOps /\ \E u \in Users, rel \in RelPaths, hasContent \in BOOLEAN :
           PutFile(u, 1, rel, hasContent)
    \/ ioCount < MaxOps /\ \E u \in Users, rel \in RelPaths : DeleteFile(u, 1, rel)
    \/ ioCount < MaxOps /\ \E u \in Users : ListApp(u, 1)

SpecAccess == Init /\ [][NextAccess]_vars

NextStore ==
    \/ ioCount < MaxOps /\ \E u \in Users, a \in AppIds, rel \in RelPaths : GetFile(u, a, rel)
    \/ ioCount < MaxOps /\ \E u \in Users, a \in AppIds, rel \in RelPaths, hasContent \in BOOLEAN :
           PutFile(u, a, rel, hasContent)
    \/ ioCount < MaxOps /\ \E u \in Users, a \in AppIds, rel \in RelPaths : DeleteFile(u, a, rel)
    \/ ioCount < MaxOps /\ \E u \in Users, a \in AppIds : ListApp(u, a)
    \/ ioCount < MaxOps /\ \E u \in Users, a \in AppIds, rel \in RelPaths : ToolWriteFile(u, a, rel)
    \/ ioCount < MaxOps /\ \E u \in Users, a \in AppIds, rel \in RelPaths : ToolReadFile(u, a, rel)
    \/ ioCount < MaxOps /\ \E u \in Users, a \in AppIds, rel \in RelPaths : ToolListFiles(u, a, rel)
    \/ ioCount < MaxOps /\ \E u \in Users, a \in AppIds, rel \in RelPaths : ToolDeleteFile(u, a, rel)
    \/ \E u \in Users, a \in DelApps : DeleteApp(u, a)

SpecStore == Init /\ [][NextStore]_vars

\* File requests and tool calls of user 1 on their workspace 1 with paths
\* that name the directory of user 2.
NextCross ==
    \/ ioCount < MaxOps /\ \E rel \in CrossPaths : GetFile(1, 1, rel)
    \/ ioCount < MaxOps /\ \E rel \in CrossPaths : PutFile(1, 1, rel, TRUE)
    \/ ioCount < MaxOps /\ \E rel \in CrossPaths : DeleteFile(1, 1, rel)
    \/ ioCount < MaxOps /\ \E rel \in CrossPaths : ToolWriteFile(1, 1, rel)
    \/ ioCount < MaxOps /\ \E rel \in CrossPaths : ToolReadFile(1, 1, rel)
    \/ ioCount < MaxOps /\ \E rel \in CrossPaths : ToolListFiles(1, 1, rel)
    \/ ioCount < MaxOps /\ \E rel \in CrossPaths : ToolDeleteFile(1, 1, rel)

SpecCross == Init /\ [][NextCross]_vars

\* PATCH, GET and DELETE requests of the apps routes.
NextPatch ==
    \/ \E u \in Users, a \in AppIds, userId \in BodyUserIds : PatchApp(u, a, userId)
    \/ \E u \in Users, a \in AppIds : GetApp(u, a)
    \/ \E u \in Users, a \in DelApps : DeleteApp(u, a)

SpecPatch == Init /\ [][NextPatch]_vars

\* POST /apps requests.
NextCreate ==
    \/ \E k \in CreateIds, u \in Users, hasName \in BOOLEAN, prompt \in Prompts :
           CreateRequest(k, u, hasName, prompt)
    \/ \E k \in CreateIds, ok \in BOOLEAN : AppInserted(k, ok)
    \/ \E k \in CreateIds, ok \in BOOLEAN : ChatInserted(k, ok)

SpecCreate == Init /\ [][NextCreate]_vars

\* Generations with a prompt on the chats 1 and 2, and DELETE /chats/:id
\* requests of both users.
NextChat ==
    \/ \E g \in Gens, u \in Users, c \in DOMAIN chatApp : StreamRequest(g, u, c, TRUE, FALSE, TRUE)
    \/ \E g \in Gens, ok \in BOOLEAN : InitDone(g, ok, TRUE)
    \/ \E g \in Gens : UserCommit(g)
    \/ \E g \in Gens : UserInserted(g, TRUE)
    \/ \E g \in Gens, ch \in Chunks : Chunk(g, ch)
    \/ \E g \in Gens : StreamEnd(g)
    \/ \E g \in Gens : AssistantCommit(g)
    \/ \E g \in Gens : Finish(g)
    \/ \E g \in Gens : InsertFailed(g)
    \/ \E u \in Users, c \in ChatIds : DeleteChat(u, c)

SpecChat == Init /\ [][NextChat]_vars

NextStream ==
    \/ \E g \in Gens, u \in Users, c \in ChatIds, prompt, redo, keyOk \in BOOLEAN :
           StreamRequest(g, u, c, prompt, redo, keyOk)
    \/ \E g \in Gens, ok, keyOk \in BOOLEAN : InitDone(g, ok, keyOk)
    \/ \E g \in Gens : UserCommit(g)
    \/ \E g \in Gens, keyOk \in BOOLEAN : UserInserted(g, keyOk)
    \/ \E g \in Gens, ch \in Chunks : Chunk(g, ch)
    \/ \E g \in Gens : AbortObserved(g)
    \/ \E g \in Gens : StreamError(g)
    \/ \E g \in Gens : StreamEnd(g)
    \/ \E g \in Gens : AssistantCommit(g)
    \/ \E g \in Gens : Finish(g)
    \/ \E u \in Users, sid \in StreamIds : Cancel(u, sid)
    \/ Tick

SpecStream == Init /\ [][NextStream]_vars

\* One generation request with its tool steps.
NextGen ==
    \/ \E u \in Users, c \in ChatIds, prompt, redo, keyOk \in BOOLEAN :
           StreamRequest(1, u, c, prompt, redo, keyOk)
    \/ \E ok, keyOk \in BOOLEAN : InitDone(1, ok, keyOk)
    \/ UserCommit(1)
    \/ \E keyOk \in BOOLEAN : UserInserted(1, keyOk)
    \/ \E ch \in Chunks : Chunk(1, ch)
    \/ \E t \in Tools, success \in BOOLEAN : ToolStep(1, t, success)
    \/ AbortObserved(1)
    \/ StreamError(1)
    \/ StreamEnd(1)
    \/ AssistantCommit(1)
    \/ Finish(1)
    \/ \E u \in Users, sid \in StreamIds : Cancel(u, sid)
    \/ Tick

SpecGen == Init /\ [][NextGen]_vars

\* The API client reads one response, the transport delivering it in pieces
\* of any size.
NextRead ==
    \/ \E fs \in ServerStreams : streamMessage(fs)
    \/ \E n \in ReadSizes : ReaderRead(n)
    \/ ReaderDone

SpecRead == Init /\ [][NextRead]_vars

(***************************************************************************)
(* Claims about the process manager and the preview proxy (SpecProc)       *)
(***************************************************************************)

\* C1: in every reachable state no two workspaces hold a lease on the same
\* port (a workspace has at most one lease because processes is a map keyed
\* by the workspace id).
C1_LeasesHoldDistinctPorts ==
    \A a, b \in AppIds :
        (a # b /\ HasLease(a) /\ HasLease(b)) => processes[a].port # processes[b].port

\* C2: two start calls for the same workspace, the second issued while the
\* first was suspended before recording its lease, spawn exactly one child
\* between them and return the same port.
C2_ConcurrentStartSpawnsOnce ==
    \A c1, c2 \in CallIds :
        (c1 \in calls[c2].during /\ calls[c1].pc = "ok" /\ calls[c2].pc = "ok")
            => /\ Cardinality({c \in {c1, c2} : child[c] # "none"}) = 1
               /\ calls[c1].port = calls[c2].port

\* C7: the exit handler of a child releases only that child's own lease:
\* the late exit of a child that stop(W) killed, arriving after a new
\* start(W) recorded a fresh lease, leaves the fresh lease in place.
C7_LateExitKeepsNewLease ==
    [][\A c \in CallIds :
          (/\ ChildExit(c)
           /\ child[c] = "killed"
           /\ processes[calls[c].app].child > c
           /\ calls[processes[calls[c].app].child].during = {})
              => processes'[calls[c].app] = processes[calls[c].app]]_vars

\* C8: right after stop(W) returned true for a workspace that held port p,
\* W has no lease, status(W) would report running = false and p is held by
\* no lease, so that getAvailablePort can hand it out again.
C8_StopFreesPort ==
    [][\A u \in Users, a \in AppIds :
          (StopRequest(u, a) /\ OwnsApp(u, a) /\ HasLease(a))
              => /\ processes'[a] = NoLease
                 /\ processes'[a].port = NoPort
                 /\ \A b \in AppIds : processes'[b].port # processes[a].port]_vars

\* C9 (as stated): every preview request made while W has no lease is
\* answered 503 without a proxy connection, whether or not a workspace W
\* exists in the database.
C9_NoLeaseAlways503 ==
    [][\A a \in AppIds :
          (PreviewRequest(a, TRUE) /\ ~HasLease(a))
              => (resp'.status = 503 /\ resp'.target = NoPort)]_vars

\* C9 (amended): a preview request made while W has no lease never creates
\* a proxy connection; it is answered 503 when the apps table has a row W,
\* 404 when it has none and 500 when the lookup throws.
C9_NoLeaseNoProxy ==
    [][\A a \in AppIds, dbOk \in BOOLEAN :
          (PreviewRequest(a, dbOk) /\ ~HasLease(a))
              => /\ resp'.target = NoPort
                 /\ resp'.status = IF ~dbOk THEN 500
                                   ELSE IF owner[a] = NoUser THEN 404 ELSE 503]_vars

\* C9 witness: a preview request for a deleted workspace without lease has
\* been answered
C9_Witness ==
    /\ resp.kind = "preview"
    /\ ~resp.hadLease
    /\ owner[resp.app] = NoUser
    /\ resp.status = 404

(***************************************************************************)
(* Claims about the storage layer (SpecStore)                              *)
(***************************************************************************)

\* C3: whatever relative path the client or the model supplies, the path a
\* store operation finally accesses is the workspace root apps/<user>/<app>
\* of the request or a descendant of it.
C3_IoInsideWorkspace ==
    lastIo.io # "none"
        => IsPrefix(WorkspaceRoot(lastIo.user, lastIo.app), lastIo.path)

\* C4: a store operation whose input path resolves outside the workspace
\* root fails with a "forbidden path" error and performs no file-system
\* I/O (in particular such a PUT creates no file).
C4_EscapeIsForbidden ==
    (/\ lastIo.op # "none"
     /\ lastIo.status # "appNotFound"
     /\ ~IsPrefix(WorkspaceRoot(lastIo.user, lastIo.app),
                  Resolved(STORAGE_BASE \o getUserAppPath(lastIo.user, lastIo.app) \o lastIo.rel)))
        => (lastIo.status = "forbidden" /\ lastIo.io = "none" /\ files = InitFiles)

\* C5: for every input path the path produced by Storage.getFullPath is the
\* storage base or a descendant of it.
C5_IoInsideStorageBase ==
    lastIo.io # "none" => IsPrefix(BaseRoot, lastIo.path)


(***************************************************************************)
(* Claims about generation streams (SpecStream)                            *)
(***************************************************************************)

\* C6: once a cancel request has answered success for a stream session (its
\* controller is aborted), no step inserts an assistant message of that
\* session into the messages table, wherever the cancel interleaves.
C6_CancelledWritesNoAssistantMessage ==
    [][\A g \in Gens :
          aborted[g] =>
              \A i \in 1 .. Len(messages') :
                  (messages'[i].role = "assistant" /\ messages'[i].requestId = g)
                      => (i <= Len(messages) /\ messages[i] = messages'[i])]_vars

\* C10 (as stated): for a request with a prompt and without redo, the first
\* frame written is the streamId frame, and every message frame comes after
\* the streamId frame and before any chunk frame.
C10_StreamIdFrameFirst ==
    \A g \in Gens :
        LET fr == gens[g].frames
        IN  (gens[g].echo /\ \E i \in 1 .. Len(fr) : fr[i].type \in {"message", "streamId", "chunk"})
                => /\ fr[1].type = "streamId"
                   /\ \A i \in 1 .. Len(fr) :
                          fr[i].type = "message"
                              => /\ \E j \in 1 .. (i - 1) : fr[j].type = "streamId"
                                 /\ \A k \in 1 .. (i - 1) : fr[k].type # "chunk"

\* C10 (amended): for a request with a prompt and without redo, the streamId
\* frame is preceded by the message frame echoing the persisted user message,
\* only status frames precede that message frame, and every chunk frame is
\* preceded by the streamId frame.
C10_MessageFrameBeforeStreamId ==
    \A g \in Gens :
        LET fr == gens[g].frames
        IN  gens[g].echo
                => /\ \A i \in 1 .. Len(fr) :
                          fr[i].type = "streamId"
                              => \E j \in 1 .. (i - 1) :
                                    /\ fr[j].type = "message"
                                    /\ fr[j].message = UserRow(g)
                                    /\ \E m \in 1 .. Len(messages) : messages[m] = UserRow(g)
                                    /\ \A k \in 1 .. (j - 1) : fr[k].type = "status"
                   /\ \A i \in 1 .. Len(fr) :
                          fr[i].type = "chunk"
                              => \E j \in 1 .. (i - 1) : fr[j].type = "streamId"

\* A request with a prompt and without redo has written its message frame,
\* its streamId frame and a chunk frame.
C10_Witness ==
    \E g \in Gens :
        /\ gens[g].echo
        /\ \E i, j, k \in 1 .. Len(gens[g].frames) :
              /\ gens[g].frames[i].type = "message"
              /\ gens[g].frames[j].type = "streamId"
              /\ gens[g].frames[k].type = "chunk"

(***************************************************************************)
(* Claims about one generation (SpecGen)                                   *)
(***************************************************************************)

\* C11: a generation that opened its stream and ended its response without
\* a cancel and without an error frame has inserted exactly one assistant
\* message, and the last frame it wrote is the end frame carrying that
\* message; this includes a generation with tool steps and no text chunk.
C11_CompletionPersistsAndEnds ==
    \A g \in Gens :
        (/\ gens[g].pc = "done"
         /\ gens[g].sid # NoSid
         /\ ~aborted[g]
         /\ \A i \in 1 .. Len(gens[g].frames) : gens[g].frames[i].type # "error")
            => /\ Cardinality({i \in 1 .. Len(messages) :
                      messages[i].role = "assistant" /\ messages[i].requestId = g}) = 1
               /\ gens[g].frames # <<>>
               /\ gens[g].frames[Len(gens[g].frames)].type = "end"
               /\ \E i \in 1 .. Len(messages) :
                      gens[g].frames[Len(gens[g].frames)].message = messages[i]

(***************************************************************************)
(* Claims about cancellation and concurrent generations (SpecStream)       *)
(***************************************************************************)

\* C12: a cancel request for a registered stream id answers success, aborts
\* the registered controller and removes that session and no other; a stream
\* id all of whose generations have ended their response or were cancelled
\* is not registered, so a cancel request for it takes the 404 branch, which
\* writes no state.
C12_CancelRegisteredElse404 ==
    /\ [](\A sid \in StreamIds :
            (/\ \E g \in Gens : gens[g].sid = sid
             /\ \A g \in Gens : gens[g].sid = sid => (gens[g].pc = "done" \/ aborted[g]))
                => CancelResponse(sid) = [status |-> 404, success |-> FALSE])
    /\ [][\A u \in Users, sid \in StreamIds :
            (activeStreams[sid] # NoGen /\ Cancel(u, sid)) =>
                /\ CancelResponse(sid) = [status |-> 200, success |-> TRUE]
                /\ aborted'[activeStreams[sid]]
                /\ activeStreams'[sid] = NoGen
                /\ \A t \in StreamIds \ {sid} : activeStreams'[t] = activeStreams[t]]_vars

\* A cancelled generation has ended its response: its stream id is no longer
\* registered and a further cancel request for it answers 404.
C12_Witness ==
    \E g \in Gens :
        /\ aborted[g]
        /\ gens[g].pc = "done"
        /\ CancelResponse(gens[g].sid).status = 404

(***************************************************************************)
(* Further claims about the process manager (SpecProc)                     *)
(***************************************************************************)

\* C13: a start by the owner of a workspace without lease fails with the
\* exhausted error and records no lease when maxPorts workspaces hold
\* leases, and otherwise acquires the lowest port of the pool that no lease
\* holds (so it succeeds again once a leased workspace was stopped).
C13_ExhaustedIffPoolFull ==
    [][\A c \in CallIds, u \in Users, a \in AppIds :
          (NextFree(c) /\ OwnsApp(u, a) /\ ~HasLease(a) /\ StartRequest(c, u, a)) =>
              IF Cardinality({x \in AppIds : HasLease(x)}) >= maxPorts
                THEN /\ calls'[c].pc = "exhausted"
                     /\ processes' = processes
                ELSE /\ calls'[c].pc = "accessPkg"
                     /\ calls'[c].port \in Ports
                     /\ \A x \in AppIds : HasLease(x) => processes[x].port # calls'[c].port
                     /\ \A p \in Ports :
                            p < calls'[c].port => \E x \in AppIds : processes[x].port = p]_vars

(***************************************************************************)
(* Claims about stopping and the log events (SpecLog)                      *)
(***************************************************************************)

\* C14: a stop by the owner of a workspace without lease answers stopped =
\* false, kills no child, publishes no log event and leaves the lease map
\* unchanged; a successful stop leaves the workspace without lease, so the
\* stop right after it answers false.
C14_StopWithoutLeaseIsNoOp ==
    [][\A u \in Users, a \in AppIds :
          (OwnsApp(u, a) /\ StopRequest(u, a)) =>
              IF HasLease(a)
                THEN resp'.stopped /\ processes'[a] = NoLease
                ELSE /\ resp' = [kind |-> "stop", app |-> a, status |-> 200,
                                 stopped |-> FALSE, port |-> NoPort]
                     /\ UNCHANGED <<processes, child, received>>]_vars

\* After a successful stop of workspace 2 a further stop has answered false
\* while a connection was listening in the workspace's room.
C14_Witness ==
    /\ resp = [kind |-> "stop", app |-> 2, status |-> 200, stopped |-> FALSE, port |-> NoPort]
    /\ child[1] = "killed"
    /\ \E s \in Sockets : 2 \in rooms[s]

\* C15: once the "stopped" line of a child has been published, no further
\* log event of that child (stdout data, stderr data, exit line) is
\* published: no connection receives one after the "stopped" line.
C15_NoChildEventAfterStop ==
    \A s \in Sockets :
        \A i, j \in 1 .. Len(received[s]) :
            (i < j /\ received[s][i].message = "stopped"
                   /\ received[s][j].src = received[s][i].src)
                => received[s][j].message \notin {"stdout", "stderr", "exit"}

(***************************************************************************)
(* Claims about shutdown (SpecShutdown)                                    *)
(***************************************************************************)

\* C16: when the shutdown handler has run to its process.exit, no child
\* process is still running, no lease is left and no stream session is
\* registered.
C16_ShutdownStopsChildrenAndStreams ==
    server = "exited" =>
        /\ \A c \in CallIds : child[c] # "running"
        /\ \A a \in AppIds : ~HasLease(a)
        /\ \A sid \in StreamIds : activeStreams[sid] = NoGen

(***************************************************************************)
(* Claims about ownership and the lease map (SpecProc)                     *)
(***************************************************************************)

\* C17: in every reachable state, a workspace that holds a lease can have it
\* removed by a stop request of some user: POST /process/W/stop by that user
\* is answered by running stopApp, which leaves W without lease.
C17_LeaseAlwaysReleasable ==
    \A a \in AppIds :
        HasLease(a) =>
            \E u \in Users : ENABLED (StopRequest(u, a) /\ processes'[a] = NoLease)

(***************************************************************************)
(* Claims about requests of other users (SpecAccess)                       *)
(***************************************************************************)

\* C18 (as stated): every request of a user who is not the owner of the
\* workspace -- GET /apps/W, GET, PUT, DELETE and list under /files/app/W,
\* POST /process/W/start and /stop -- is answered 404 and changes neither
\* the file tree, nor the persisted rows, nor the lease map.
C18_NonOwnerAlways404 ==
    [][\A u \in Users, a \in AppIds :
          (owner[a] # NoUser /\ owner[a] # u) =>
              /\ (GetApp(u, a) \/ StopRequest(u, a) \/ \E c \in CallIds : StartRequest(c, u, a))
                    => /\ resp'.status = 404
                       /\ UNCHANGED <<files, dirs, owner, messages, processes, child>>
              /\ (ioCount' # ioCount /\ lastIo'.user = u /\ lastIo'.app = a)
                    => /\ lastIo'.status = "appNotFound"
                       /\ lastIo'.io = "none"
                       /\ UNCHANGED <<files, dirs, owner, messages, processes, child>>]_vars

\* C18 (amended): every such request changes neither the file tree, nor the
\* persisted rows, nor the lease map, and touches no file; it is answered
\* 404, except a PUT whose body has no content field, which is answered 400
\* before the ownership lookup.
C18_NonOwnerChangesNothing ==
    [][\A u \in Users, a \in AppIds :
          (owner[a] # NoUser /\ owner[a] # u) =>
              /\ (GetApp(u, a) \/ StopRequest(u, a) \/ \E c \in CallIds : StartRequest(c, u, a))
                    => /\ resp'.status = 404
                       /\ UNCHANGED <<files, dirs, owner, messages, processes, child>>
              /\ (ioCount' # ioCount /\ lastIo'.user = u /\ lastIo'.app = a)
                    => /\ lastIo'.status \in {"appNotFound", "badRequest"}
                       /\ lastIo'.status = "badRequest" => lastIo'.op = "PUT"
                       /\ lastIo'.io = "none"
                       /\ UNCHANGED <<files, dirs, owner, messages, processes, child>>]_vars

\* User 2 has asked for workspace 1 of user 1 while it held a lease and was
\* answered 404; the lease is still there.
C18_Witness ==
    /\ resp = [kind |-> "app", app |-> 1, status |-> 404]
    /\ HasLease(1)
    /\ lastIo.user = 2 /\ lastIo.app = 1 /\ lastIo.status = "appNotFound"

(***************************************************************************)
(* Claims about the dependency install (SpecProc)                          *)
(***************************************************************************)

\* C19: while the install step of a start of one workspace is in progress,
\* status, preview, stop and start requests about every other workspace can
\* be served.
C19_InstallDoesNotBlockOthers ==
    \A c \in CallIds :
        calls[c].pc = "installing" =>
            \A a \in AppIds \ {calls[c].app} :
                /\ ENABLED StatusRequest(a)
                /\ ENABLED PreviewRequest(a, TRUE)
                /\ \A u \in Users : ENABLED StopRequest(u, a)
                /\ \A u \in Users : \A d \in CallIds : NextFree(d) => ENABLED StartRequest(d, u, a)

(***************************************************************************)
(* Claims about the order of persisted messages (SpecStream)               *)
(***************************************************************************)

\* serial id of the assistant row of generation g, 0 when there is none
AssistantMsg(g) ==
    IF \E i \in 1..Len(messages) : messages[i].requestId = g
    THEN CHOOSE i \in 1..Len(messages) : messages[i].requestId = g
    ELSE 0

\* C20: for any two generations on the same chat, the user row and the
\* assistant row of one are not separated in insertion order by a row of the
\* other, and an assistant row comes after its own user row.
C20_GenerationRowsContiguous ==
    \A g \in Gens :
        (gens[g].userMsg # 0 /\ AssistantMsg(g) # 0) =>
            /\ gens[g].userMsg < AssistantMsg(g)
            /\ \A h \in Gens \ {g} :
                   gens[h].chat = gens[g].chat =>
                       /\ ~(gens[g].userMsg < gens[h].userMsg /\ gens[h].userMsg < AssistantMsg(g))
                       /\ ~(gens[g].userMsg < AssistantMsg(h) /\ AssistantMsg(h) < AssistantMsg(g))

(***************************************************************************)
(* Claims about failing starts (SpecFail)                                  *)
(***************************************************************************)

FramesOfType(g, type) ==
    LET Is(f) == f.type = type IN SelectSeq(gens[g].frames, Is)

\* the tool results of generation g for which the claim expects a frame
MutatedOk(g) ==
    LET Is(r) == r.success /\ r.tool \in MutatingTools IN SelectSeq(gens[g].tools, Is)

\* C23: the fileUpdate frames of a generation are, in order, exactly its
\* successful results of file-mutating tools (writeFile, deleteFile): none
\* for a failed result, none for a read-only tool (readFile, listFiles).
C23_FileUpdateIffMutatingSuccess ==
    \A g \in Gens :
        /\ Len(FramesOfType(g, "fileUpdate")) = Len(MutatedOk(g))
        /\ \A k \in 1 .. Len(MutatedOk(g)) :
               FramesOfType(g, "fileUpdate")[k].path = MutatedOk(g)[k].tool

\* C24: the fullContent of the k-th chunk frame of a stream is the
\* concatenation of the contents of chunk frames 1..k, and a persisted
\* assistant message holds the fullContent of the stream's last chunk frame.
C24_FullContentAccumulates ==
    \A g \in Gens :
        LET cf == FramesOfType(g, "chunk") IN
        /\ \A k \in 1 .. Len(cf) : cf[k].fullContent = [i \in 1 .. k |-> cf[i].content]
        /\ \A i \in 1 .. Len(messages) :
               messages[i].requestId = g =>
                   /\ Len(cf) > 0
                   /\ messages[i].content = cf[Len(cf)].fullContent

\* a persisted assistant message of a stream with two chunk frames and a
\* fileUpdate frame between them
C24_Witness ==
    \E g \in Gens :
        /\ AssistantMsg(g) # 0
        /\ Len(FramesOfType(g, "chunk")) = 2
        /\ \E i, j, k \in 1 .. Len(gens[g].frames) :
               /\ i < j /\ j < k
               /\ gens[g].frames[i].type = "chunk"
               /\ gens[g].frames[j].type = "fileUpdate"
               /\ gens[g].frames[k].type = "chunk"

(***************************************************************************)
(* Claims about the delivery of log events (SpecLog)                       *)
(***************************************************************************)

\* the connection whose events so far are h has sent join-app(a) and has
\* neither sent leave-app(a) nor disconnected since
Subscribed(h, a) ==
    \E i \in 1 .. Len(h) :
        /\ h[i] = JoinEvent(a)
        /\ \A j \in (i + 1) .. Len(h) : h[j] \notin {LeaveEvent(a), DisconnectEvent}

\* C25: a connection receives a terminal:log event of workspace W exactly
\* when, at the publish, it has sent join-app(W) and has neither sent
\* leave-app(W) nor disconnected since: the rooms agree with that history,
\* every delivery goes to such a connection, and every publish reaches
\* every such connection.
C25_DeliveredIffSubscribed ==
    /\ [](\A s \in Sockets, a \in AppIds : a \in rooms[s] <=> Subscribed(sent[s], a))
    /\ [][\A s \in Sockets :
            received'[s] # received[s] =>
                /\ Len(received'[s]) > Len(received[s])
                /\ SubSeq(received'[s], 1, Len(received[s])) = received[s]
                /\ \A k \in (Len(received[s]) + 1) .. Len(received'[s]) :
                       Subscribed(sent[s], received'[s][k].appId)]_vars
    /\ [][\A s \in Sockets, c \in CallIds :
            (/\ Subscribed(sent[s], calls[c].app)
             /\ \/ calls'[c].pc # calls[c].pc /\ calls[c].pc \in {"accessModules", "installing"}
                \/ calls'[c].pc = "accessModules" /\ calls[c].pc = "accessPkg"
                \/ child'[c] # child[c])
                => /\ Len(received'[s]) > Len(received[s])
                   /\ received'[s][Len(received'[s])].appId = calls[c].app]_vars

\* the connection joined workspace 2, received an event of it, left, and the
\* next event of workspace 2 was published without reaching it
C25_Witness ==
    \E s \in Sockets :
        /\ sent[s] = <<JoinEvent(2), LeaveEvent(2)>>
        /\ Len(received[s]) = 1
        /\ calls[1].pc = "ok"

\* the messages of the events of the run of call c that connection s has
\* received, in the order of their arrival
RunLog(s, c) ==
    LET Is(e) == e.src = c
        ev == SelectSeq(received[s], Is)
    IN  [i \in 1 .. Len(ev) |-> ev[i].message]

\* the lines startApp publishes before it spawns, in program order
InstallLines == <<"preparing", "installing", "installed", "starting">>

\* the events of a spawned child and of its stop
ChildLines == {"stdout", "stderr", "stopped", "exit"}

\* C26: a connection that joined the workspace before the first publish of
\* a run (it has the run's "preparing" line) and has not left or
\* disconnected has the run's lines in the order of their publication:
\* preparing, the install lines, starting, then the events of the child,
\* with none missing up to the point the run has reached.
C26_RunObservedInPublishOrder ==
    \A s \in Sockets, c \in CallIds :
        LET log == RunLog(s, c) IN
        ((\A i \in 1 .. Len(sent[s]) : sent[s][i].op = "join-app")
            /\ \E i \in 1 .. Len(log) : log[i] = "preparing") =>
            /\ calls[c].pc = "accessModules" => log = <<"preparing">>
            /\ calls[c].pc = "installing" => log = <<"preparing", "installing">>
            /\ calls[c].pc = "installFailed" => log = <<"preparing", "installing", "installFailed">>
            /\ calls[c].pc = "ok" =>
                   \E k \in {2, 4} :
                       /\ Len(log) >= k
                       /\ SubSeq(log, 1, k) = IF k = 4 THEN InstallLines
                                                       ELSE <<"preparing", "starting">>
                       /\ \A i \in (k + 1) .. Len(log) : log[i] \in ChildLines
                       /\ Cardinality({i \in 1 .. Len(log) : log[i] = "exit"}) =
                              (IF child[c] = "exited" THEN 1 ELSE 0)
                       /\ child[c] = "killed" => \E i \in 1 .. Len(log) : log[i] = "stopped"

\* a connection that joined before the run has the whole run: the four lines
\* up to "starting", a data event and the exit line
C26_Witness ==
    \E s \in Sockets :
        /\ sent[s] = <<JoinEvent(2)>>
        /\ Len(RunLog(s, 1)) = 6
        /\ RunLog(s, 1)[5] \in {"stdout", "stderr"}
        /\ RunLog(s, 1)[6] = "exit"

(***************************************************************************)
(* Claims about the deletion of a workspace (SpecStore)                    *)
(***************************************************************************)

\* C28: once DELETE /apps/{id} has removed the row of a workspace, neither
\* the workspace root directory apps/<user>/<id> nor a file or directory
\* under it exists in the store.
C28_DeleteRemovesWorkspaceRoot ==
    \A a \in AppIds, u \in Users :
        owner[a] = NoUser =>
            \A p \in files \cup dirs : ~IsPrefix(WorkspaceRoot(u, a), p)

(***************************************************************************)
(* Claims about the release of stream sessions (SpecStream)                *)
(***************************************************************************)

\* C30: a generation that ends its response leaves no session under its
\* stream id, on every path (completion, cancellation, missing credential,
\* upstream error), and every registered session belongs to a generation
\* whose handler has not ended.
C30_SessionReleasedAtEnd ==
    /\ [](\A sid \in StreamIds :
            activeStreams[sid] # NoGen => gens[activeStreams[sid]].pc # "done")
    /\ [][\A g \in Gens :
            (gens[g].pc # "done" /\ gens'[g].pc = "done" /\ gens'[g].sid # NoSid) =>
                activeStreams'[gens'[g].sid] = NoGen]_vars

\* one generation has ended by completion (end frame), another after its
\* cancellation
C30_Witness ==
    \E g, h \in Gens :
        /\ g # h
        /\ gens[g].pc = "done" /\ gens[h].pc = "done"
        /\ gens[g].sid # NoSid /\ gens[h].sid # NoSid
        /\ gens[g].frames[Len(gens[g].frames)].type = "end"
        /\ aborted[h]


(***************************************************************************)
(* Claims about the rows of workspaces, chats and messages                 *)
(* (SpecCreate, SpecChat)                                                  *)
(***************************************************************************)

\* C27: when a POST /apps request has been answered, also with an error,
\* the workspace row and the initial chat row it inserts exist both or
\* neither.
C27_AppAndChatCreatedTogether ==
    \A k \in CreateIds :
        creates[k].pc \in {"done", "failed", "badRequest"} => (creates[k].app <=> creates[k].chat)

\* C29: the delete of a chat by its owner removes exactly the messages of
\* that chat and keeps the others in their order; a delete by another user
\* removes no chat and no message; no message of a deleted chat exists.
C29_DeleteChatCascades ==
    /\ [](\A i \in 1 .. Len(messages) : messages[i].chatId \in chats)
    /\ [][\A u \in Users, c \in DOMAIN chatApp :
            (c \in chats /\ DeleteChat(u, c)) =>
                IF owner[chatApp[c]] = u
                  THEN /\ chats' = chats \ {c}
                       /\ \A i \in 1 .. Len(messages') : messages'[i].chatId # c
                       /\ LET Other(m) == m.chatId # c
                          IN  SelectSeq(messages', Other) = SelectSeq(messages, Other)
                  ELSE /\ resp'.status = 403
                       /\ messages' = messages /\ chats' = chats]_vars

\* chat 1, which held the two messages of a completed generation, has been
\* deleted by its owner, and the message of chat 2 is still there
C29_Witness ==
    /\ chats = {2}
    /\ resp = [kind |-> "deleteChat", chat |-> 1, status |-> 200]
    /\ Len(messages) = 1 /\ messages[1].chatId = 2
    /\ \E g \in Gens : gens[g].chat = 1 /\ gens[g].pc = "done" /\ gens[g].userMsg # 0
                       /\ gens[g].frames[Len(gens[g].frames)].type = "end"


(***************************************************************************)
(* Claims about the identity of stream sessions (SpecStream)               *)
(***************************************************************************)

\* generation g has announced its stream id and has not ended its response
Active(g) == gens[g].sid # NoSid /\ gens[g].pc # "done"

\* C31: two generations that are active at the same time have distinct
\* stream ids, and the session registered under the stream id of an active
\* generation that was not cancelled is its own: a cancel of that id aborts
\* this generation, and no other generation's cleanup has removed it.
C31_ActiveStreamIdsDistinct ==
    \A g \in Gens :
        Active(g) =>
            /\ \A h \in Gens \ {g} : Active(h) => gens[h].sid # gens[g].sid
            /\ ~aborted[g] => activeStreams[gens[g].sid] = g


\* C32: a cancel request of a user who does not own the chat of the
\* registered session neither aborts the generation nor removes the
\* session.
C32_CancelOnlyByOwner ==
    [][\A u \in Users, sid \in StreamIds :
          (/\ activeStreams[sid] # NoGen
           /\ gens[activeStreams[sid]].user # u
           /\ Cancel(u, sid))
              => aborted' = aborted /\ activeStreams' = activeStreams]_vars


(***************************************************************************)
(* Claims about the separation of users in the store (SpecCross)           *)
(***************************************************************************)

\* the directory apps/<u> of user u
UserRoot(u) == Resolved(STORAGE_BASE \o <<"apps", IdStr(u)>>)

\* C33: the path a file operation of one user reads, writes, lists or
\* deletes is never the directory apps/<B> of another user B or a path
\* under it, whatever relative path was supplied.
C33_NoAccessToOtherUsersFiles ==
    lastIo.io # "none" =>
        \A b \in Users \ {lastIo.user} : ~IsPrefix(UserRoot(b), lastIo.path)


(***************************************************************************)
(* Claims about the owner of a workspace (SpecPatch)                       *)
(***************************************************************************)

\* C34: no step changes the user_id of an existing workspace row, whatever
\* the bodies of the PATCH requests.
C34_OwnerNeverChanges ==
    [][\A a \in AppIds :
          (owner[a] # NoUser /\ owner'[a] # NoUser) => owner'[a] = owner[a]]_vars


(***************************************************************************)
(* Claims about the end of an SSE response (SpecGen)                       *)
(***************************************************************************)

\* C35: in every response an `end` or `error` frame is the last frame and
\* is written by the step that ends the response, so a response has at most
\* one of them; no frame is written once the response has ended.
C35_OneTerminalFrameLast ==
    /\ [](\A g \in Gens :
            \A i \in 1 .. Len(gens[g].frames) :
                gens[g].frames[i].type \in {"end", "error"} =>
                    i = Len(gens[g].frames) /\ gens[g].pc = "done")
    /\ [][\A g \in Gens :
            gens[g].pc = "done" => gens'[g] = gens[g]]_vars

\* a response that ended with its `end` frame after a chunk frame and a
\* fileUpdate frame
C35_Witness ==
    \E g \in Gens :
        /\ gens[g].pc = "done"
        /\ Len(gens[g].frames) >= 4
        /\ gens[g].frames[Len(gens[g].frames)].type = "end"
        /\ Len(FramesOfType(g, "fileUpdate")) > 0
        /\ Len(FramesOfType(g, "chunk")) > 0


(***************************************************************************)
(* Claims about the terminal hook (SpecHook)                               *)
(***************************************************************************)

\* the hook of workspace a is mounted on the connection with history h: it
\* has emitted its join event and has not disconnected since
HookJoined(h, a) ==
    \E i \in 1 .. Len(h) :
        /\ h[i] = TerminalJoinEvent(a)
        /\ \A j \in (i + 1) .. Len(h) : h[j] # DisconnectEvent

\* C36: once the terminal hook of a workspace has connected and emitted its
\* join event, its connection is in the room of the workspace, and every
\* terminal:log event of the workspace published from then on arrives at the
\* hook.
C36_HookReceivesLogs ==
    /\ [](\A s \in Sockets, a \in AppIds : HookJoined(sent[s], a) => a \in rooms[s])
    /\ [][\A s \in Sockets, c \in CallIds :
            (/\ HookJoined(sent[s], calls[c].app)
             /\ \/ calls'[c].pc # calls[c].pc /\ calls[c].pc \in {"accessModules", "installing"}
                \/ calls'[c].pc = "accessModules" /\ calls[c].pc = "accessPkg"
                \/ child'[c] # child[c])
                => /\ Len(received'[s]) > Len(received[s])
                   /\ received'[s][Len(received'[s])].appId = calls[c].app]_vars


(***************************************************************************)
(* Claims about the API client's SSE reader (SpecRead)                     *)
(***************************************************************************)

\* the callbacks the reader calls when the whole response arrives in one read
Unsplit(fs) == Feed(NewReader, WireOf(fs)).events

\* the content of the last assistant message of the last onUpdate call
LastAssistantContent(events) ==
    LET ups == {i \in 1 .. Len(events) : events[i].cb = "onUpdate"}
        u == events[CHOOSE i \in ups : \A j \in ups : j <= i].arg
        as == {i \in 1 .. Len(u) : u[i].role = "assistant"}
    IN  u[CHOOSE i \in as : \A j \in as : j <= i].content

\* C37: when the reader has read a response to its end, whatever the sizes
\* of the read() results were, it has called onUpdate, onEnd and onError in
\* the same sequence and with the same arguments as for the response
\* arriving in one read, and when the response has a chunk frame, the
\* assistant content of the last onUpdate call is the fullContent of the
\* last chunk frame.
C37_ReaderIndependentOfChunking ==
    reader.pc = "closed" =>
        /\ reader.events = Unsplit(reader.frames)
        /\ \A i \in 1 .. Len(reader.frames) :
               (/\ reader.frames[i].type = "chunk"
                /\ \A j \in (i + 1) .. Len(reader.frames) : reader.frames[j].type # "chunk")
                   => LastAssistantContent(reader.events) = reader.frames[i].val

\* a response of a user message frame, a chunk frame with a two-byte
\* character and the end frame, read in pieces that cut a line or the
\* character
C37_Witness ==
    /\ reader.pc = "closed"
    /\ reader.split
    /\ reader.frames = <<WireFrame("message", "a"), WireFrame("chunk", "U+00E9"),
                         WireFrame("end", "a")>>
    /\ Len(reader.events) = 3

====
